---- MODULE Spec2Model ----
(***************************************************************************)
(* A model of the apiris SDK core: ObservationEvaluator.evaluate,          *)
(* DecisionEngine.evaluate, ResponseInterceptor.apply and ApirisClient.get.*)
(*                                                                         *)
(* Numbers.  Thresholds and weights are held in hundredths (0.6 is 60).    *)
(* A score is an exact fraction [n, d] (value n/d); comparisons are exact, *)
(* Python's binary floating point rounding is not modelled.  Time is in    *)
(* whole milliseconds.                                                     *)
(***************************************************************************)
EXTENDS Integers, Sequences, FiniteSets, TLC

(* ----------------------------- bounds --------------------------------- *)
\* calls of ApirisClient.get in one run
MaxCalls == 2

(* ------------------------- Python values ------------------------------- *)
\* status_code: Optional[int] = None
NoStatus == -1
\* raw_text: Optional[str] = None
NoText == [k |-> "none"]
\* a text received from the transport, named by its catalogue id
Wire(id) == [k |-> "wire", id |-> id]
EmptyText == Wire("")
\* Python truthiness of an Optional[str]
TextTruthy(t) == t # NoText /\ t # EmptyText
\* Python truthiness of an Optional[int]
StatusTruthy(s) == s # NoStatus /\ s # 0

(* ----------------------------- JSON ------------------------------------ *)
\* json.loads of "null", and the parsed value of a text that is no JSON
JNull == [t |-> "null"]
JBool(b) == [t |-> "bool", b |-> b]
JNum(n) == [t |-> "num", n |-> n]
JStr(s) == [t |-> "str", s |-> s]
JArr(items) == [t |-> "arr", items |-> items]
\* kv: the sequence of <<key, value>> pairs in insertion order
JObj(kv) == [t |-> "obj", kv |-> kv]
IsDict(v) == v.t = "obj"
IsList(v) == v.t = "arr"
\* json.dumps(value): the text Python writes for a value
Dumps(v) == [k |-> "dumps", v |-> v]

\* the sensitive patterns contained in str(key).lower(), for the keys used
SensitivePatternsIn(key) ==
  CASE key = "password" -> {"password"}
    [] key = "Token" -> {"token"}
    [] key = "api_key" -> {"api_key"}
    [] key = "sessionId" -> {"session"}
    [] OTHER -> {}

\* the auth-hint patterns contained in str(key).lower(), for the keys used
AuthPatternsIn(key) ==
  CASE key = "Token" -> {"token"}
    [] key = "api_key" -> {"key"}
    [] key = "sessionId" -> {"session"}
    [] OTHER -> {}

\* any(pattern in key_lower for pattern in patterns)
KeyIsSensitive(key) == SensitivePatternsIn(key) # {}

MaskMaxDepth == 6

\* _mask_sensitive_fields replacing a sensitive value by a digest of it
RECURSIVE _mask_sensitive_fields_digest(_, _)
_mask_sensitive_fields_digest(value, depth) ==
  IF depth > MaskMaxDepth THEN value
  ELSE IF IsList(value)
    THEN JArr([i \in DOMAIN value.items |->
                 _mask_sensitive_fields_digest(value.items[i], depth + 1)])
  ELSE IF ~IsDict(value) THEN value
  ELSE JObj([i \in DOMAIN value.kv |->
               IF KeyIsSensitive(value.kv[i][1])
                 THEN <<value.kv[i][1], [t |-> "str", s |-> "digest", of |-> value.kv[i][2]]>>
                 ELSE <<value.kv[i][1],
                        _mask_sensitive_fields_digest(value.kv[i][2], depth + 1)>>])

\* _mask_sensitive_fields stopping one level early
RECURSIVE _mask_sensitive_fields_ge(_, _)
_mask_sensitive_fields_ge(value, depth) ==
  IF depth >= MaskMaxDepth THEN value
  ELSE IF IsList(value)
    THEN JArr([i \in DOMAIN value.items |->
                 _mask_sensitive_fields_ge(value.items[i], depth + 1)])
  ELSE IF ~IsDict(value) THEN value
  ELSE JObj([i \in DOMAIN value.kv |->
               IF KeyIsSensitive(value.kv[i][1])
                 THEN <<value.kv[i][1], JStr("[MASKED]")>>
                 ELSE <<value.kv[i][1],
                        _mask_sensitive_fields_ge(value.kv[i][2], depth + 1)>>])

RECURSIVE _mask_sensitive_fields(_, _)
_mask_sensitive_fields(value, depth) ==
  IF depth > MaskMaxDepth THEN value
  ELSE IF IsList(value)
    THEN JArr([i \in DOMAIN value.items |->
                 _mask_sensitive_fields(value.items[i], depth + 1)])
  ELSE IF ~IsDict(value) THEN value
  ELSE JObj([i \in DOMAIN value.kv |->
               IF KeyIsSensitive(value.kv[i][1])
                 THEN <<value.kv[i][1], JStr("[MASKED]")>>
                 ELSE <<value.kv[i][1],
                        _mask_sensitive_fields(value.kv[i][2], depth + 1)>>])

(* ----------------------- the texts on the wire ------------------------- *)
\* json.loads of each wire text of the catalogue; JNull when it is no JSON
\*   "ok1"  {"ok": true}
\*   "ok2"  {"ok": false, "reason": "drift"}
\*   "pw"   {"password": "x", "user": {"Token": "t"}}
\*   "arr"  [{"id": 1}]
\*   "err"  upstream exception      (no JSON)
\*   ""     the empty body
\*   "deep" {"a": {"a": [{"a": {"a": {"a": {"password": "x",
\*                                          "a": {"password": "y"}}}}}]}}
\*          one "password" in the mapping at depth 6, one at depth 7
\*   "s1"   {"btc": {"usd": 1}}
\*   "m1"   [{"id": "btc", "current_price": 1}]
\*   "m2"   [{"id": "btc", "current_price": 2}]
DeepJson ==
  LET In(v) == JObj(<< <<"a", v>> >>)
      bottom == JObj(<< <<"password", JStr("x")>>,
                        <<"a", JObj(<< <<"password", JStr("y")>> >>)>> >>)
  IN In(In(JArr(<< In(In(In(bottom))) >>)))
WireJson(id) ==
  CASE id = "ok1" -> JObj(<< <<"ok", JBool(TRUE)>> >>)
    [] id = "ok2" -> JObj(<< <<"ok", JBool(FALSE)>>, <<"reason", JStr("drift")>> >>)
    [] id = "pw" -> JObj(<< <<"password", JStr("x")>>,
                            <<"user", JObj(<< <<"Token", JStr("t")>> >>)>> >>)
    [] id = "arr" -> JArr(<< JObj(<< <<"id", JNum(1)>> >>) >>)
    [] id = "deep" -> DeepJson
    [] id = "s1" -> JObj(<< <<"btc", JObj(<< <<"usd", JNum(1)>> >>)>> >>)
    [] id = "m1" -> JArr(<< JObj(<< <<"id", JStr("btc")>>, <<"current_price", JNum(1)>> >>) >>)
    [] id = "m2" -> JArr(<< JObj(<< <<"id", JStr("btc")>>, <<"current_price", JNum(2)>> >>) >>)
    [] OTHER -> JNull

\* the sensitive patterns found in raw_text.lower()
RawSensitive(id) ==
  IF id = "pw" THEN {"password", "token"}
  ELSE IF id = "deep" THEN {"password"}
  ELSE {}
\* the auth-hint patterns found in raw_text.lower()
RawAuth(id) == IF id = "pw" THEN {"token"} ELSE {}
\* the stack-trace vocabulary found in body_text.lower()
RawVerbose(id) == IF id = "err" THEN {"exception"} ELSE {}

\* _safe_json_parse, and the json.loads of ApirisClient.get
_safe_json_parse(text) ==
  IF ~TextTruthy(text) THEN JNull
  ELSE IF text.k = "wire" THEN WireJson(text.id)
  ELSE text.v

\* _hash_text: SHA-256 taken as injective on the texts
_hash_text(text) == [sha |-> text]
NoHash == [sha |-> NoText]

(* ----------------------------- headers --------------------------------- *)
\* a header mapping is a set of <<name, value>> pairs
HeaderNames(h) == {p[1] : p \in h}
HeaderGet(h, name) ==
  IF name \in HeaderNames(h) THEN (CHOOSE p \in h : p[1] = name)[2] ELSE "None"
\* key.lower() for the header names used
HeaderLower(name) == IF name = "Set-Cookie" THEN "set-cookie" ELSE name

H0 == {}
\* response_headers = None: no mapping at all
NoHeaders == {<<"None">>}
HJson == {<<"content-type", "application/json">>}
HCookie == HJson \cup {<<"Set-Cookie", "sid=1">>}
HLimited == HJson \cup {<<"x-ratelimit-remaining", "0">>}

(* ------------------------ transport outcomes --------------------------- *)
NoError == [name |-> "None", message |-> "None"]
ErrTimeout == [name |-> "Timeout", message |-> "read timed out"]
ErrConnection == [name |-> "ConnectionError", message |-> "refused"]
\* a connection refused for a URL that has the word in it: the message of
\* requests.ConnectionError names the URL
ErrConnectionUrl ==
  [name |-> "ConnectionError", message |-> "Max retries exceeded with url: /timeout"]

\* what score_isolation_forest does with the row of a call: it returns a score
\* in (0, 1] (hundredths, 1..100), or it raises (Fails: a tree that lacks the
\* split the row reaches, a forest with trees and sampleSize 1)
Fails == 0 - 1

\* session.get returned: res.text, res.status_code, dict(res.headers)
\* timing_ms is the elapsed time of the call, ai what the forest of the API, if
\* it has one, does with the row of the call
Responded(status, headers, id) ==
  [status |-> status, headers |-> headers, text |-> Wire(id), error |-> NoError,
   timing_ms |-> 50, ai |-> Fails]
\* session.get raised: raw_text, status_code stay None, response_headers {}
Failed(error) ==
  [status |-> NoStatus, headers |-> H0, text |-> NoText, error |-> error,
   timing_ms |-> 50, ai |-> Fails]
\* the same outcome after timing_ms milliseconds
After(out, timing_ms) == [out EXCEPT !.timing_ms = timing_ms]
\* the same outcome with the score the forest gives its row
Scored(out, ai) == [out EXCEPT !.ai = ai]

(* ------------------------ ObservationEvaluator -------------------------- *)
RECURSIVE _extract_schema_paths(_, _, _)
\* paths are sequences of tokens: a.b[] is <<"a", "b", "[]">>
_extract_schema_paths(value, prefix, depth) ==
  IF depth > 3 THEN {}
  ELSE IF IsList(value)
    THEN {Append(prefix, "[]")}
         \cup (IF Len(value.items) > 0
                 THEN _extract_schema_paths(value.items[1], Append(prefix, "[]"), depth + 1)
                 ELSE {})
  ELSE IF IsDict(value)
    THEN UNION {{Append(prefix, value.kv[i][1])}
                \cup _extract_schema_paths(value.kv[i][2],
                                          Append(prefix, value.kv[i][1]), depth + 1)
                : i \in DOMAIN value.kv}
  ELSE {}

RECURSIVE _scan_keys_for_matches(_, _, _)
\* sensitive = TRUE scans with the sensitive patterns, FALSE with the auth hints
_scan_keys_for_matches(value, sensitive, path_prefix) ==
  IF IsList(value)
    THEN UNION {_scan_keys_for_matches(value.items[i], sensitive, path_prefix)
                : i \in DOMAIN value.items}
  ELSE IF IsDict(value)
    THEN UNION {(IF (IF sensitive THEN SensitivePatternsIn(value.kv[i][1])
                                  ELSE AuthPatternsIn(value.kv[i][1])) # {}
                   THEN {Append(path_prefix, value.kv[i][1])} ELSE {})
                \cup _scan_keys_for_matches(value.kv[i][2], sensitive,
                                            Append(path_prefix, value.kv[i][1]))
                : i \in DOMAIN value.kv}
  ELSE {}

_detect_sensitive_fields(parsed, raw_text) ==
  _scan_keys_for_matches(parsed, TRUE, <<>>)
  \cup (IF TextTruthy(raw_text)
          THEN {<<"raw:", p>> : p \in RawSensitive(raw_text.id)} ELSE {})

_detect_auth_hints(parsed, raw_text) ==
  _scan_keys_for_matches(parsed, FALSE, <<>>)
  \cup (IF TextTruthy(raw_text)
          THEN {<<"raw:", p>> : p \in RawAuth(raw_text.id)} ELSE {})

_detect_verbose_errors(status, body_text) ==
  IF ~TextTruthy(body_text) \/ ~StatusTruthy(status) \/ status < 400 THEN {}
  ELSE RawVerbose(body_text.id)

SensitiveHeaders ==
  {"set-cookie", "authorization", "www-authenticate", "x-api-key", "x-auth-token"}

_detect_header_exposure(headers) ==
  {name \in HeaderNames(headers) : HeaderLower(name) \in SensitiveHeaders}

\* "timeout", "timedout" or "etimedout" in the lowered text
HasTimeoutWord(text) == text \in {"Timeout", "Max retries exceeded with url: /timeout"}

\* every error descriptor taken for a timeout
_is_timeout_error_any(error) == error # NoError

\* the words are looked for in the error's name and message
_is_timeout_error(error) ==
  error # NoError /\ (HasTimeoutWord(error.name) \/ HasTimeoutWord(error.message))

\* Python truthiness of a parsed JSON value
JTruthy(v) ==
  CASE v.t = "null" -> FALSE
    [] v.t = "bool" -> v.b
    [] v.t = "num" -> v.n # 0
    [] v.t = "str" -> v.s # ""
    [] v.t = "arr" -> Len(v.items) > 0
    [] v.t = "obj" -> Len(v.kv) > 0

\* dict.get(key) on a parsed mapping: None (JNull) when the key is missing
ObjGet(v, key) ==
  IF \E i \in DOMAIN v.kv : v.kv[i][1] = key
    THEN v.kv[CHOOSE i \in DOMAIN v.kv : v.kv[i][1] = key][2]
    ELSE JNull

\* float(x) of a price; the prices of the catalogue are numbers
PriceOf(v) == IF v.t = "bool" THEN (IF v.b THEN 1 ELSE 0) ELSE v.n

\* the price map as a function from the id (a JSON value) to the price; the
\* empty function stands for None and for {} alike, both are falsy
_extract_coingecko_prices(api_name, parsed, vs_currency) ==
  IF ~JTruthy(parsed) THEN <<>>
  ELSE IF api_name = "coingecko-simple-price" /\ IsDict(parsed)
    THEN LET priced == {i \in DOMAIN parsed.kv :
                          /\ IsDict(parsed.kv[i][2])
                          /\ ObjGet(parsed.kv[i][2], vs_currency) # JNull}
         IN [k \in {JStr(parsed.kv[i][1]) : i \in priced} |->
               PriceOf(ObjGet(ObjGet(parsed, k.s), vs_currency))]
  ELSE IF api_name = "coingecko-markets" /\ IsList(parsed)
    THEN LET priced == {i \in DOMAIN parsed.items :
                          /\ IsDict(parsed.items[i])
                          /\ ObjGet(parsed.items[i], "id") # JNull
                          /\ ObjGet(parsed.items[i], "current_price") # JNull}
             \* a later entry with the same id replaces an earlier one
             lastOf(k) == CHOOSE i \in priced :
                            /\ ObjGet(parsed.items[i], "id") = k
                            /\ \A j \in priced : ObjGet(parsed.items[j], "id") = k => j <= i
         IN [k \in {ObjGet(parsed.items[i], "id") : i \in priced} |->
               PriceOf(ObjGet(parsed.items[lastOf(k)], "current_price"))]
  ELSE <<>>

\* ObservationEvaluator.latest_prices after __init__
NoPrices == [simple |-> <<>>, markets |-> <<>>]

\* the inconsistencies (None is the empty set) and the latest_prices it leaves
_build_cross_endpoint_inconsistencies(latest, api_name, parsed, vs_currency) ==
  LET price_map == _extract_coingecko_prices(api_name, parsed, vs_currency)
      store_key == IF api_name = "coingecko-simple-price" THEN "simple" ELSE "markets"
      other_key == IF store_key = "simple" THEN "markets" ELSE "simple"
      other_map == latest[other_key]
  IN IF price_map = <<>> THEN [inconsistencies |-> {}, latest_prices |-> latest]
     ELSE [inconsistencies |->
             {[id |-> k, current |-> price_map[k], other |-> other_map[k],
               delta |-> price_map[k] - other_map[k]]
              : k \in {x \in DOMAIN price_map \cap DOMAIN other_map :
                         price_map[x] - other_map[x] # 0}},
           latest_prices |-> [latest EXCEPT ![store_key] = price_map]]

\* last_response_by_signature.get(signature)
NoPrevious == [hash |-> NoHash, ts |-> 0, count |-> 0]

NoSchema == [paths |-> {}]

\* temporalDrift, replayedPayload = None
NoRecord == [none |-> TRUE]

\* anomaly_result = None: the scorer returned None, or it raised
NoResult == [none |-> TRUE]

AiFieldNames == {"aiAnomalyScore", "aiAnomalyFlag", "aiTopFeatures", "aiSchemaHash"}

\* integrity.update({...}) under "if anomaly_result": no field without a result
AiFields(anomaly_result) ==
  IF anomaly_result = NoResult THEN <<>>
  ELSE [aiAnomalyScore |-> anomaly_result.anomalyScore,
        aiAnomalyFlag |-> anomaly_result.anomalyFlag,
        aiTopFeatures |-> anomaly_result.topFeatures,
        aiSchemaHash |-> anomaly_result.schemaHash]

\* ObservationEvaluator.evaluate: the Observation, from the transport outcome
\* out, the elapsed timing_ms, the scorer's anomaly_result, the stored schema
\* hash prev_schema, signature record prev and latest prices, at time t
Observation(api, url, out, timing_ms, soft_timeout_ms, anomaly_result, prev_schema, prev, latest, t) ==
  LET response_text == out.text
      response_headers == out.headers
      response_status == out.status
      parsed == _safe_json_parse(response_text)
      schema_paths == IF parsed # JNull THEN _extract_schema_paths(parsed, <<>>, 0) ELSE {}
      schema_hash == [paths |-> schema_paths]
      schema_changed == /\ schema_hash # NoSchema
                        /\ prev_schema # NoSchema
                        /\ schema_hash # prev_schema
      has_previous == prev # NoPrevious
      response_hash == IF TextTruthy(response_text) THEN _hash_text(response_text) ELSE NoHash
      drift_detected == response_hash # NoHash /\ has_previous /\ response_hash # prev.hash
      replayed_payload == response_hash # NoHash /\ has_previous /\ response_hash = prev.hash
      rate_limited == \/ response_status = 429
                      \/ /\ response_headers # {}
                         /\ \/ HeaderGet(response_headers, "x-ratelimit-remaining") = "0"
                            \/ HeaderGet(response_headers, "x-rate-limit-remaining") = "0"
  IN [api |-> api,
      url |-> url,
      confidentiality |->
        [sensitiveFields |-> _detect_sensitive_fields(parsed, response_text),
         authHintsInPayload |-> _detect_auth_hints(parsed, response_text),
         verboseErrorSignals |-> _detect_verbose_errors(response_status, response_text),
         headerExposure |-> _detect_header_exposure(response_headers)],
      availability |->
        [latencyMs |-> timing_ms,
         softTimeoutExceeded |-> soft_timeout_ms > 0 /\ timing_ms >= soft_timeout_ms,
         timeoutError |-> _is_timeout_error(out.error),
         rateLimited |-> rate_limited,
         status |-> response_status],
      integrity |->
        [schemaHash |-> schema_hash,
         previousSchemaHash |-> prev_schema,
         schemaChanged |-> schema_changed,
         responseHash |-> response_hash,
         temporalDrift |->
           IF drift_detected THEN [previousHash |-> prev.hash, sinceMs |-> t - prev.ts]
                             ELSE NoRecord,
         replayedPayload |->
           IF replayed_payload
             THEN [hash |-> response_hash, repeatCount |-> prev.count, sinceMs |-> t - prev.ts]
             ELSE NoRecord,
         crossEndpointInconsistencies |->
           _build_cross_endpoint_inconsistencies(latest, api, parsed, "usd").inconsistencies]
        @@ AiFields(anomaly_result)]

\* self.schema_by_api[api] after the call
SchemaAfter(obs, prev_schema) ==
  IF obs.integrity.schemaHash # NoSchema THEN obs.integrity.schemaHash ELSE prev_schema

\* evaluate without the write to last_response_by_signature
SignatureAfter_not_stored(obs, prev, t) == prev

\* self.last_response_by_signature[signature] after the call
SignatureAfter(obs, prev, t) ==
  [hash |-> obs.integrity.responseHash,
   ts |-> t,
   count |-> IF prev # NoPrevious THEN prev.count + 1 ELSE 1]

(* --------------------------- PolicyManager ------------------------------ *)
\* a policy layer maps keys to boxed values; Null is YAML null
Box(x) == [null |-> FALSE, v |-> x]
Null == [null |-> TRUE]
EmptyLayer == <<>>
\* dict.update
Update(a, b) ==
  [k \in DOMAIN a \cup DOMAIN b |-> IF k \in DOMAIN b THEN b[k] ELSE a[k]]

NoPolicy == [on |-> FALSE, global |-> EmptyLayer, services |-> <<>>, endpoints |-> <<>>]

get_effective_policy(pol, service_name, endpoint) ==
  LET g == pol.global
      s == IF service_name \in DOMAIN pol.services
             THEN Update(g, pol.services[service_name]) ELSE g
      e == IF /\ endpoint # ""
              /\ service_name \in DOMAIN pol.endpoints
              /\ endpoint \in DOMAIN pol.endpoints[service_name]
             THEN Update(s, pol.endpoints[service_name][endpoint]) ELSE s
  IN e

AllowedKeys ==
  {"confidentiality_threshold", "availability_threshold", "integrity_threshold",
   "confidentiality_weight", "availability_weight", "integrity_weight",
   "latency_budget_ms", "delay_ms", "prefer"}

apply_to_profile(pol, profile, service_name, endpoint) ==
  LET effective == get_effective_policy(pol, service_name, endpoint)
      updated == [k \in DOMAIN profile |->
                    IF k \in AllowedKeys /\ k \in DOMAIN effective /\ ~effective[k].null
                      THEN effective[k].v ELSE profile[k]]
      forced == /\ "force_integrity_priority" \in DOMAIN effective
                /\ effective["force_integrity_priority"] = Box(TRUE)
  IN IF DOMAIN effective = {} THEN profile
     ELSE IF forced THEN [updated EXCEPT !["prefer"] = "integrity"]
     ELSE updated

(* ------------------- PolicyLoader, PolicyValidator ---------------------- *)
\* what yaml.safe_load gives where a mapping is expected but a scalar is written
Scalar == [k \in {"#scalar"} |-> "oops"]
IsMapping(x) == "#scalar" \notin DOMAIN x
\* a string written where a number is expected
Text(s) == [null |-> FALSE, text |-> s]
\* float("nan"), written .nan in YAML and NaN in JSON; every comparison with it
\* is false
NaN == 0 - 999
\* isinstance(value, (int, float))
IsNumber(b) == "v" \in DOMAIN b
ThresholdKeys == {"integrity_threshold", "availability_threshold", "confidentiality_threshold"}

\* a document of the "policies" list form has entries; one of the sections
\* form has global, services and endpoints
PolicyEntry(scope, service, endpoint, values) ==
  [scope |-> scope, service |-> service, endpoint |-> endpoint, values |-> values]
EmptySections == [global |-> EmptyLayer, services |-> <<>>, endpoints |-> <<>>]
\* the entry as _normalize stores it: its values beside its own scope key
Stored(entry) == Update([scope |-> Box(entry.scope)], entry.values)
RECURSIVE NormalizeEntries(_, _)
NormalizeEntries(entries, policy) ==
  IF entries = <<>> THEN policy
  ELSE LET entry == Head(entries)
           next ==
             IF entry.scope = "global" THEN [policy EXCEPT !.global = Stored(entry)]
             ELSE IF entry.scope = "endpoint"
               THEN LET old == IF entry.service \in DOMAIN policy.endpoints
                                 THEN policy.endpoints[entry.service] ELSE <<>>
                    IN [policy EXCEPT !.endpoints =
                          Update(@, [sv \in {entry.service} |->
                                       Update(old, [ep \in {entry.endpoint} |-> Stored(entry)])])]
             ELSE [policy EXCEPT !.services =
                     Update(@, [sv \in {entry.service} |-> Stored(entry)])]
       IN NormalizeEntries(Tail(entries), next)

\* PolicyLoader._normalize, with the scopes PolicyValidator.validate fills in
_normalize(raw) ==
  IF raw.form = "policies" THEN NormalizeEntries(raw.entries, EmptySections)
  ELSE IF raw.form = "sections"
    THEN [global |-> raw.global, services |-> raw.services, endpoints |-> raw.endpoints]
  ELSE EmptySections

\* validate_policy_entry raises
validate_policy_entry(entry) ==
  \/ \E key \in ThresholdKeys \cap DOMAIN entry :
        \/ ~IsNumber(entry[key])
        \/ /\ entry[key].v # NaN
           /\ (entry[key].v < 0 \/ entry[key].v > 100)
  \/ /\ "prefer" \in DOMAIN entry
     /\ entry["prefer"] \notin {Box("availability"), Box("integrity")}

\* PolicyValidator.validate raises
validate(policy) ==
  \/ IsMapping(policy.global) /\ validate_policy_entry(policy.global)
  \/ \E sv \in DOMAIN policy.services :
        IsMapping(policy.services[sv]) /\ validate_policy_entry(policy.services[sv])
  \/ \E sv \in DOMAIN policy.endpoints : \E ep \in DOMAIN policy.endpoints[sv] :
        /\ IsMapping(policy.endpoints[sv][ep])
        /\ validate_policy_entry(policy.endpoints[sv][ep])

Raised == [raised |-> TRUE]
\* PolicyLoader.load of an existing file
load(raw) ==
  IF raw.form = "unparsable" THEN Raised
  ELSE IF validate(_normalize(raw)) THEN Raised
  ELSE _normalize(raw)

\* the policy manager ApirisClient.__init__ ends with, beside the document read
ClientPolicy(raw) ==
  IF load(raw) = Raised
    THEN [doc |-> raw] @@ NoPolicy
    ELSE [doc |-> raw, on |-> TRUE] @@ load(raw)

\* dict.update of get_effective_policy raises: a layer that applies is no mapping
PolicyRaises(pol, service_name, endpoint) ==
  /\ pol.on
  /\ \/ ~IsMapping(pol.global)
     \/ service_name \in DOMAIN pol.services /\ ~IsMapping(pol.services[service_name])
     \/ /\ endpoint # ""
        /\ service_name \in DOMAIN pol.endpoints
        /\ endpoint \in DOMAIN pol.endpoints[service_name]
        /\ ~IsMapping(pol.endpoints[service_name][endpoint])

(* ---------------------------- fractions -------------------------------- *)
Frac(n, d) == [n |-> n, d |-> d]
\* a < b, a <= b for fractions with positive denominators
FLt(a, b) == a.n * b.d < b.n * a.d
FLe(a, b) == a.n * b.d <= b.n * a.d
FMax(a, b) == IF FLt(a, b) THEN b ELSE a
\* a threshold in hundredths as a fraction
Pct(t) == Frac(t, 100)
\* int(x): the fraction cut off towards zero
int(x) == IF x.n >= 0 THEN x.n \div x.d ELSE 0 - ((0 - x.n) \div x.d)
\* time.time() * 1000 - cache.ts at time t, both taken in whole milliseconds
AgeAt(cache, t) == IF "ts" \in DOMAIN cache THEN Frac(t - cache.ts, 1) ELSE Frac(0, 1)
\* max(0.0, min(1.0, value))
clamp(value) ==
  IF value.n < 0 THEN Frac(0, 1) ELSE IF value.n > value.d THEN Frac(1, 1) ELSE value
\* round(value, 2), in hundredths: the nearest hundredth, ties to even
Round2(value) ==
  LET q == (100 * value.n) \div value.d
      r == (100 * value.n) % value.d
  IN IF 2 * r < value.d THEN q
     ELSE IF 2 * r > value.d THEN q + 1
     ELSE IF q % 2 = 0 THEN q ELSE q + 1

(* ---------------------------- AnomalyScorer ----------------------------- *)
\* the evaluator has no scorer: enable_ai is off, or AnomalyScorer(...) raised
NoScorer == [none |-> TRUE]
\* AnomalyScorer: models says for each API whether the model file has no entry
\* for it ("none"), an entry without trees ("empty") or one with a forest
AnomalyScorer(models, threshold) ==
  [models |-> models, soft_threshold |-> threshold, strong_threshold |-> threshold]

\* _extract_schema_paths of anomaly_model.py, max_depth = 6
RECURSIVE AnomalySchemaPaths(_, _, _)
AnomalySchemaPaths(value, prefix, depth) ==
  IF depth > 6 THEN {}
  ELSE IF IsList(value)
    THEN {Append(prefix, "[]")}
         \cup (IF Len(value.items) > 0
                 THEN AnomalySchemaPaths(value.items[1], Append(prefix, "[]"), depth + 1)
                 ELSE {})
  ELSE IF IsDict(value)
    THEN UNION {{Append(prefix, value.kv[i][1])}
                \cup AnomalySchemaPaths(value.kv[i][2],
                                        Append(prefix, value.kv[i][1]), depth + 1)
                : i \in DOMAIN value.kv}
  ELSE {}

\* _collect_stats: the sum and the number of the numeric leaves; a bool is an
\* int in Python and counts
RECURSIVE NumericSum(_)
RECURSIVE NumericSumOf(_)
NumericSumOf(values) ==
  IF values = <<>> THEN 0 ELSE NumericSum(Head(values)) + NumericSumOf(Tail(values))
NumericSum(value) ==
  IF IsList(value) THEN NumericSumOf(value.items)
  ELSE IF IsDict(value) THEN NumericSumOf([i \in DOMAIN value.kv |-> value.kv[i][2]])
  ELSE IF value.t = "num" THEN value.n
  ELSE IF value.t = "bool" /\ value.b THEN 1
  ELSE 0

RECURSIVE NumericCount(_)
RECURSIVE NumericCountOf(_)
NumericCountOf(values) ==
  IF values = <<>> THEN 0 ELSE NumericCount(Head(values)) + NumericCountOf(Tail(values))
NumericCount(value) ==
  IF IsList(value) THEN NumericCountOf(value.items)
  ELSE IF IsDict(value) THEN NumericCountOf([i \in DOMAIN value.kv |-> value.kv[i][2]])
  ELSE IF value.t \in {"num", "bool"} THEN 1
  ELSE 0

\* _numeric_stats(...)["mean"], an exact fraction
NumericMean(parsed) ==
  IF NumericCount(parsed) = 0 THEN Frac(0, 1)
  ELSE Frac(NumericSum(parsed), NumericCount(parsed))

\* api not in runtime_state
NoRuntime == [absent |-> TRUE]
\* last_response_timestamp = None
NoTimestamp == 0 - 1
\* last_numeric_mean = None
NoMean == [none |-> TRUE]
\* the entry that score creates for an API it has not seen
FreshRuntime ==
  [last_response_hash |-> NoHash,
   last_response_timestamp |-> NoTimestamp,
   last_numeric_mean |-> NoMean,
   repeat_count |-> 0]

\* the running state with a repeat count that is never reset
RuntimeAfter_no_reset(state, response_hash, now_ms, parsed) ==
  [last_response_hash |-> response_hash,
   last_response_timestamp |-> now_ms,
   last_numeric_mean |-> NumericMean(parsed),
   repeat_count |-> state.repeat_count + 1]

\* the running state that score leaves after scoring
RuntimeAfter(state, response_hash, now_ms, parsed) ==
  [last_response_hash |-> response_hash,
   last_response_timestamp |-> now_ms,
   last_numeric_mean |-> NumericMean(parsed),
   repeat_count |-> IF response_hash # NoHash /\ response_hash = state.last_response_hash
                      THEN state.repeat_count + 1 ELSE 0]

\* AnomalyScorer.score: whether it raised, the result it returned and the
\* runtime_state[api] it leaves; verdict is what the forest does with the row
AnomalyScorer_score(scorer, api, parsed, response_text, state0, now_ms, verdict) ==
  LET state == IF state0 = NoRuntime THEN FreshRuntime ELSE state0
      response_hash == IF TextTruthy(response_text) THEN _hash_text(response_text) ELSE NoHash
      schema_paths == IF parsed # JNull THEN AnomalySchemaPaths(parsed, <<>>, 0) ELSE {}
      repeats == state.last_response_hash # NoHash /\ response_hash = state.last_response_hash
      anomaly_score == IF scorer.models[api] = "empty" THEN 0 ELSE verdict
  IN IF scorer.models[api] = "none"
       THEN [raised |-> FALSE, result |-> NoResult, state |-> state0]
     ELSE IF verdict = Fails
       THEN [raised |-> TRUE, result |-> NoResult, state |-> state]
     ELSE [raised |-> FALSE,
           result |->
             [anomalyScore |-> anomaly_score,
              anomalyFlag |-> IF anomaly_score >= scorer.strong_threshold THEN "strong"
                              ELSE IF anomaly_score >= scorer.soft_threshold THEN "soft"
                              ELSE "none",
              schemaHash |-> [paths |-> schema_paths],
              responseHash |-> response_hash,
              \* the three features furthest from the model's mean
              topFeatures |-> "top3",
              features |->
                [numeric_mean |-> NumericMean(parsed),
                 repeat_count |-> IF repeats THEN state.repeat_count + 1 ELSE 0,
                 time_since_identical |->
                   IF /\ response_hash # NoHash
                      /\ state.last_response_timestamp \notin {NoTimestamp, 0}
                      /\ response_hash = state.last_response_hash
                     THEN Frac(now_ms - state.last_response_timestamp, 1000)
                     ELSE Frac(0 - 1, 1)]],
           state |-> RuntimeAfter(state, response_hash, now_ms, parsed)]

\* the scoring of evaluate with a result of score 0 when the scorer raises
AnomalyResult_zero_on_failure(config, scorer, api, parsed, response_text, state0, now_ms, verdict) ==
  IF ~config.enable_ai \/ scorer = NoScorer THEN [result |-> NoResult, state |-> state0]
  ELSE LET scored == AnomalyScorer_score(scorer, api, parsed, response_text, state0, now_ms, verdict)
       IN [result |-> IF scored.raised
                        THEN [anomalyScore |-> 0, anomalyFlag |-> "none",
                              schemaHash |-> NoSchema, topFeatures |-> "None"]
                        ELSE scored.result,
           state |-> scored.state]

\* the scoring of ObservationEvaluator.evaluate: no scorer, no result; a scorer
\* that raises, no result either
AnomalyResult(config, scorer, api, parsed, response_text, state0, now_ms, verdict) ==
  IF ~config.enable_ai \/ scorer = NoScorer THEN [result |-> NoResult, state |-> state0]
  ELSE LET scored == AnomalyScorer_score(scorer, api, parsed, response_text, state0, now_ms, verdict)
       IN [result |-> IF scored.raised THEN NoResult ELSE scored.result,
           state |-> scored.state]

(* --------------------------- DecisionEngine ----------------------------- *)
\* ApirisConfig.confidentiality_threshold
ConfidentialityThresholdOf(config) == config.integrity_threshold

DEFAULT_PROFILE ==
  [confidentiality_threshold |-> 0,
   availability_threshold |-> 0,
   integrity_threshold |-> 0,
   availability_delay_threshold |-> 0,
   confidentiality_weight |-> 100,
   availability_weight |-> 100,
   integrity_weight |-> 100,
   latency_budget_ms |-> 1000,
   prefer |-> "availability",
   delay_ms |-> 400]

\* _get_profile with a delay threshold of its own, 1.0
_get_profile_delay_apart(config, overrides, pol, api, endpoint) ==
  LET base == [DEFAULT_PROFILE EXCEPT
                 !.confidentiality_threshold = ConfidentialityThresholdOf(config),
                 !.availability_threshold = config.availability_threshold,
                 !.integrity_threshold = config.integrity_threshold,
                 !.availability_delay_threshold = 100,
                 !.latency_budget_ms = config.latency_budget_ms]
      own == Update(base, overrides)
      withPolicy == IF pol.on THEN apply_to_profile(pol, own, api, endpoint) ELSE own
  IN IF config.mode = "strict"
       THEN [withPolicy EXCEPT !.integrity_threshold = config.integrity_threshold,
                               !.prefer = "integrity"]
       ELSE withPolicy

\* _get_profile without the strict-mode lines: the policy has the last word
_get_profile_policy_last(config, overrides, pol, api, endpoint) ==
  LET base == [DEFAULT_PROFILE EXCEPT
                 !.confidentiality_threshold = ConfidentialityThresholdOf(config),
                 !.availability_threshold = config.availability_threshold,
                 !.integrity_threshold = config.integrity_threshold,
                 !.availability_delay_threshold = config.availability_threshold,
                 !.latency_budget_ms = config.latency_budget_ms]
      own == Update(base, overrides)
  IN IF pol.on THEN apply_to_profile(pol, own, api, endpoint) ELSE own

\* the profile with prefer = integrity from the start
_get_profile_prefer_integrity(config, overrides, pol, api, endpoint) ==
  LET base == [DEFAULT_PROFILE EXCEPT
                 !.confidentiality_threshold = ConfidentialityThresholdOf(config),
                 !.availability_threshold = config.availability_threshold,
                 !.integrity_threshold = config.integrity_threshold,
                 !.availability_delay_threshold = config.availability_threshold,
                 !.latency_budget_ms = config.latency_budget_ms,
                 !.prefer = "integrity"]
      own == Update(base, overrides)
      withPolicy == IF pol.on THEN apply_to_profile(pol, own, api, endpoint) ELSE own
  IN IF config.mode = "strict"
       THEN [withPolicy EXCEPT !.integrity_threshold = config.integrity_threshold,
                               !.prefer = "integrity"]
       ELSE withPolicy

\* DecisionEngine._get_profile; overrides is self.profiles.get(api, {})
_get_profile(config, overrides, pol, api, endpoint) ==
  LET base == [DEFAULT_PROFILE EXCEPT
                 !.confidentiality_threshold = ConfidentialityThresholdOf(config),
                 !.availability_threshold = config.availability_threshold,
                 !.integrity_threshold = config.integrity_threshold,
                 !.availability_delay_threshold = config.availability_threshold,
                 !.latency_budget_ms = config.latency_budget_ms]
      own == Update(base, overrides)
      withPolicy == IF pol.on THEN apply_to_profile(pol, own, api, endpoint) ELSE own
  IN IF config.mode = "strict"
       THEN [withPolicy EXCEPT !.integrity_threshold = config.integrity_threshold,
                               !.prefer = "integrity"]
       ELSE withPolicy

B2I(b) == IF b THEN 1 ELSE 0

\* the summary with a replayed payload not counted as an integrity signal
_summarize_signals_replay_neutral(observation, profile) ==
  LET confidentiality == observation.confidentiality
      availability == observation.availability
      integrity == observation.integrity
  IN [confidentialitySignals |->
        Cardinality(confidentiality.sensitiveFields)
        + Cardinality(confidentiality.authHintsInPayload)
        + Cardinality(confidentiality.verboseErrorSignals)
        + Cardinality(confidentiality.headerExposure),
      availabilitySignals |->
        B2I(availability.rateLimited)
        + B2I(availability.timeoutError)
        + B2I(availability.softTimeoutExceeded)
        + B2I(StatusTruthy(availability.status) /\ availability.status >= 500)
        + B2I(availability.latencyMs > profile.latency_budget_ms),
      integritySignals |->
        B2I(integrity.schemaChanged)
        + B2I(integrity.temporalDrift # NoRecord)
        + B2I(integrity.crossEndpointInconsistencies # {}),
      aiAnomalyScore |-> IF "aiAnomalyScore" \in DOMAIN integrity
                           THEN integrity.aiAnomalyScore ELSE 0]

_summarize_signals(observation, profile) ==
  LET confidentiality == observation.confidentiality
      availability == observation.availability
      integrity == observation.integrity
  IN [confidentialitySignals |->
        Cardinality(confidentiality.sensitiveFields)
        + Cardinality(confidentiality.authHintsInPayload)
        + Cardinality(confidentiality.verboseErrorSignals)
        + Cardinality(confidentiality.headerExposure),
      availabilitySignals |->
        B2I(availability.rateLimited)
        + B2I(availability.timeoutError)
        + B2I(availability.softTimeoutExceeded)
        + B2I(StatusTruthy(availability.status) /\ availability.status >= 500)
        + B2I(availability.latencyMs > profile.latency_budget_ms),
      integritySignals |->
        B2I(integrity.schemaChanged)
        + B2I(integrity.temporalDrift # NoRecord)
        + B2I(integrity.replayedPayload # NoRecord)
        + B2I(integrity.crossEndpointInconsistencies # {}),
      \* integrity.get("aiAnomalyScore"), 0 when it is no number
      aiAnomalyScore |-> IF "aiAnomalyScore" \in DOMAIN integrity
                           THEN integrity.aiAnomalyScore ELSE 0]

\* the prune of DecisionEngine.evaluate against window_ms alone
WindowAfter_absolute(window, entry, window_ms) ==
  SelectSeq(Append(window, entry), LAMBDA item : item.ts >= window_ms)

\* the append of DecisionEngine.evaluate without the prune
WindowAfter_no_prune(window, entry, window_ms) == Append(window, entry)

\* the entry put at the front of the window
WindowAfter_prepend(window, entry, window_ms) ==
  SelectSeq(<<entry>> \o window, LAMBDA item : item.ts >= entry.ts - window_ms)

\* the window after the append and the prune of DecisionEngine.evaluate
WindowAfter(window, entry, window_ms) ==
  SelectSeq(Append(window, entry), LAMBDA item : item.ts >= entry.ts - window_ms)

RECURSIVE SumField(_, _)
SumField(window, f) ==
  IF window = <<>> THEN 0 ELSE Head(window)[f] + SumField(Tail(window), f)

\* _aggregate_window counting the newest entry a second time
_aggregate_window_recount(window) ==
  LET withAi == SelectSeq(window, LAMBDA e : e.aiAnomalyScore > 0)
      again(f) == IF window = <<>> THEN 0 ELSE window[Len(window)][f]
  IN [total |-> Len(window),
      confidentialitySignals |->
        SumField(window, "confidentialitySignals") + again("confidentialitySignals"),
      availabilitySignals |->
        SumField(window, "availabilitySignals") + again("availabilitySignals"),
      integritySignals |-> SumField(window, "integritySignals") + again("integritySignals"),
      aiAnomalyScoreSum |-> SumField(withAi, "aiAnomalyScore"),
      aiAnomalyScoreCount |-> Len(withAi)]

_aggregate_window(window) ==
  LET withAi == SelectSeq(window, LAMBDA e : e.aiAnomalyScore > 0)
  IN [total |-> Len(window),
      confidentialitySignals |-> SumField(window, "confidentialitySignals"),
      availabilitySignals |-> SumField(window, "availabilitySignals"),
      integritySignals |-> SumField(window, "integritySignals"),
      aiAnomalyScoreSum |-> SumField(withAi, "aiAnomalyScore"),
      aiAnomalyScoreCount |-> Len(withAi)]

\* max(0.0, 1.0 - signal_rate * weight); the rate a fraction, the weight in hundredths
_compute_score(signal_rate, weight) ==
  LET n == 100 * signal_rate.d - signal_rate.n * weight
  IN Frac(IF n < 0 THEN 0 ELSE n, 100 * signal_rate.d)

\* the scores with every AI-scored entry of the window counted as an integrity
\* signal
_compute_scores_ai_weighted(aggregates, profile) ==
  LET total == IF aggregates.total = 0 THEN 1 ELSE aggregates.total
  IN [C_score |-> _compute_score(Frac(aggregates.confidentialitySignals, total),
                                 profile.confidentiality_weight),
      A_score |-> _compute_score(Frac(aggregates.availabilitySignals, total),
                                 profile.availability_weight),
      D_score |-> _compute_score(Frac(aggregates.integritySignals
                                        + aggregates.aiAnomalyScoreCount, total),
                                 profile.integrity_weight)]

_compute_scores(aggregates, profile) ==
  LET total == IF aggregates.total = 0 THEN 1 ELSE aggregates.total
  IN [C_score |-> _compute_score(Frac(aggregates.confidentialitySignals, total),
                                 profile.confidentiality_weight),
      A_score |-> _compute_score(Frac(aggregates.availabilitySignals, total),
                                 profile.availability_weight),
      D_score |-> _compute_score(Frac(aggregates.integritySignals, total),
                                 profile.integrity_weight)]

Choice(action, tradeoff) == [action |-> action, tradeoff |-> tradeoff]
NoChoice == Choice("None", "None")

\* _enforce_integrity_priority with the comparison written <=
_enforce_integrity_priority_le(scores, profile) ==
  IF FLe(scores.D_score, Pct(profile.integrity_threshold))
    THEN Choice("reject_response", "integrity_over_availability")
    ELSE NoChoice

_enforce_integrity_priority(scores, profile) ==
  IF FLt(scores.D_score, Pct(profile.integrity_threshold))
    THEN Choice("reject_response", "integrity_over_availability")
    ELSE NoChoice

\* the rules with the integrity rule tried before the confidentiality rule
ChooseByRules_reject_first(scores, profile) ==
  LET c_low == FLt(scores.C_score, Pct(profile.confidentiality_threshold))
      a_low == FLt(scores.A_score, Pct(profile.availability_threshold))
      d_low == FLt(scores.D_score, Pct(profile.integrity_threshold))
  IN IF d_low /\ ~a_low
       THEN Choice("reject_response", "integrity_over_availability")
     ELSE IF c_low
       THEN Choice("mask_sensitive_fields", "confidentiality_over_completeness")
     ELSE IF a_low /\ ~d_low
       THEN Choice("serve_stale_cache", "availability_over_integrity")
     ELSE IF a_low /\ d_low
       THEN IF profile.prefer = "availability"
              THEN Choice("serve_stale_cache", "availability_over_integrity")
              ELSE Choice("downgrade_fidelity", "integrity_over_availability")
     ELSE IF FLt(scores.A_score, Pct(profile.availability_delay_threshold))
       THEN Choice("delay_response", "integrity_over_availability")
     ELSE Choice("pass_through", "none")

\* the rules without the one that rejects on low integrity alone
ChooseByRules_no_reject(scores, profile) ==
  LET c_low == FLt(scores.C_score, Pct(profile.confidentiality_threshold))
      a_low == FLt(scores.A_score, Pct(profile.availability_threshold))
      d_low == FLt(scores.D_score, Pct(profile.integrity_threshold))
  IN IF c_low
       THEN Choice("mask_sensitive_fields", "confidentiality_over_completeness")
     ELSE IF a_low /\ ~d_low
       THEN Choice("serve_stale_cache", "availability_over_integrity")
     ELSE IF a_low /\ d_low
       THEN IF profile.prefer = "availability"
              THEN Choice("serve_stale_cache", "availability_over_integrity")
              ELSE Choice("downgrade_fidelity", "integrity_over_availability")
     ELSE IF FLt(scores.A_score, Pct(profile.availability_delay_threshold))
       THEN Choice("delay_response", "integrity_over_availability")
     ELSE Choice("pass_through", "none")

\* the rules with one tradeoff for the both-low rule, whatever prefer says
ChooseByRules_one_tradeoff(scores, profile) ==
  LET c_low == FLt(scores.C_score, Pct(profile.confidentiality_threshold))
      a_low == FLt(scores.A_score, Pct(profile.availability_threshold))
      d_low == FLt(scores.D_score, Pct(profile.integrity_threshold))
  IN IF c_low
       THEN Choice("mask_sensitive_fields", "confidentiality_over_completeness")
     ELSE IF a_low /\ ~d_low
       THEN Choice("serve_stale_cache", "availability_over_integrity")
     ELSE IF d_low /\ ~a_low
       THEN Choice("reject_response", "integrity_over_availability")
     ELSE IF a_low /\ d_low
       THEN IF profile.prefer = "availability"
              THEN Choice("serve_stale_cache", "availability_over_integrity")
              ELSE Choice("downgrade_fidelity", "availability_over_integrity")
     ELSE IF FLt(scores.A_score, Pct(profile.availability_delay_threshold))
       THEN Choice("delay_response", "integrity_over_availability")
     ELSE Choice("pass_through", "none")

\* the rules of _choose_action below the strict-mode floor
ChooseByRules(scores, profile) ==
  LET c_low == FLt(scores.C_score, Pct(profile.confidentiality_threshold))
      a_low == FLt(scores.A_score, Pct(profile.availability_threshold))
      d_low == FLt(scores.D_score, Pct(profile.integrity_threshold))
  IN IF c_low
       THEN Choice("mask_sensitive_fields", "confidentiality_over_completeness")
     ELSE IF a_low /\ ~d_low
       THEN Choice("serve_stale_cache", "availability_over_integrity")
     ELSE IF d_low /\ ~a_low
       THEN Choice("reject_response", "integrity_over_availability")
     ELSE IF a_low /\ d_low
       THEN IF profile.prefer = "availability"
              THEN Choice("serve_stale_cache", "availability_over_integrity")
              ELSE Choice("downgrade_fidelity", "integrity_over_availability")
     ELSE IF FLt(scores.A_score, Pct(profile.availability_delay_threshold))
       THEN Choice("delay_response", "integrity_over_availability")
     ELSE Choice("pass_through", "none")

\* _choose_action without the strict-mode floor
_choose_action_no_floor(config, scores, profile) == ChooseByRules(scores, profile)

_choose_action(config, scores, profile) ==
  IF /\ config.mode = "strict"
     /\ _enforce_integrity_priority(scores, profile) # NoChoice
    THEN _enforce_integrity_priority(scores, profile)
    ELSE ChooseByRules(scores, profile)

\* the breach not taken relative to the threshold: threshold - score
breach_absolute(score, threshold) ==
  IF threshold <= 0 THEN Frac(0, 1)
  ELSE IF FLe(Pct(threshold), score) THEN Frac(0, 1)
  ELSE clamp(Frac(threshold * score.d - 100 * score.n, 100 * score.d))

\* breach(score, threshold) of _compute_confidence
breach(score, threshold) ==
  IF threshold <= 0 THEN Frac(0, 1)
  ELSE IF FLe(Pct(threshold), score) THEN Frac(0, 1)
  ELSE clamp(Frac(threshold * score.d - 100 * score.n, threshold * score.d))

\* _compute_confidence with in_bounds asking for scores above the thresholds
_compute_confidence_above(config, scores, ai_avg, profile, action, ai_used) ==
  LET in_bounds == /\ FLt(Pct(profile.confidentiality_threshold), scores.C_score)
                   /\ FLt(Pct(profile.availability_threshold), scores.A_score)
                   /\ FLt(Pct(profile.integrity_threshold), scores.D_score)
      base_confidence ==
        IF action = "pass_through" /\ in_bounds THEN Frac(1, 1)
        ELSE IF config.mode = "passive" THEN Frac(1, 1)
        ELSE IF /\ config.mode = "strict"
                /\ FLt(scores.D_score, Pct(profile.integrity_threshold))
          THEN Frac(1, 1)
        ELSE FMax(FMax(breach(scores.C_score, profile.confidentiality_threshold),
                       breach(scores.A_score, profile.availability_threshold)),
                  breach(scores.D_score, profile.integrity_threshold))
      with_ai == IF ai_used THEN FMax(base_confidence, clamp(ai_avg)) ELSE base_confidence
  IN Round2(clamp(with_ai))

\* the confidence in hundredths; ai_avg is scores_with_ai["aiAnomalyAvg"]
_compute_confidence(config, scores, ai_avg, profile, action, ai_used) ==
  LET in_bounds == /\ FLe(Pct(profile.confidentiality_threshold), scores.C_score)
                   /\ FLe(Pct(profile.availability_threshold), scores.A_score)
                   /\ FLe(Pct(profile.integrity_threshold), scores.D_score)
      base_confidence ==
        IF action = "pass_through" /\ in_bounds THEN Frac(1, 1)
        ELSE IF config.mode = "passive" THEN Frac(1, 1)
        ELSE IF /\ config.mode = "strict"
                /\ FLt(scores.D_score, Pct(profile.integrity_threshold))
          THEN Frac(1, 1)
        ELSE FMax(FMax(breach(scores.C_score, profile.confidentiality_threshold),
                       breach(scores.A_score, profile.availability_threshold)),
                  breach(scores.D_score, profile.integrity_threshold))
      with_ai == IF ai_used THEN FMax(base_confidence, clamp(ai_avg)) ELSE base_confidence
  IN Round2(clamp(with_ai))

NoCache == [none |-> TRUE]

\* _update_cache leaving an entry that is there alone
_update_cache_keep_first(config, cache, response_text, response_headers, response_status, scores, t) ==
  IF cache # NoCache THEN cache
  ELSE IF ~TextTruthy(response_text) \/ response_headers = {} \/ ~StatusTruthy(response_status)
    THEN cache
  ELSE IF FLt(scores.D_score, Pct(config.integrity_threshold)) THEN cache
  ELSE [ts |-> t,
        status |-> response_status,
        headers |-> response_headers,
        body |-> response_text,
        content_type |-> HeaderGet(response_headers, "content-type")]

\* the api_state.cache that DecisionEngine._update_cache leaves
_update_cache(config, cache, response_text, response_headers, response_status, scores, t) ==
  IF ~TextTruthy(response_text) \/ response_headers = {} \/ ~StatusTruthy(response_status)
    THEN cache
  ELSE IF FLt(scores.D_score, Pct(config.integrity_threshold)) THEN cache
  ELSE [ts |-> t,
        status |-> response_status,
        headers |-> response_headers,
        body |-> response_text,
        content_type |-> HeaderGet(response_headers, "content-type")]

\* the applied flag and reason of DecisionEngine._build_effective_response
_build_effective_response(config, action, parsed, response_status, cache, age) ==
  IF action = "pass_through" \/ response_status = NoStatus
    THEN [applied |-> FALSE, reason |-> "None"]
  ELSE IF action = "mask_sensitive_fields"
    THEN IF ~IsDict(parsed) THEN [applied |-> FALSE, reason |-> "non-json-response"]
         ELSE [applied |-> TRUE, reason |-> "None"]
  ELSE IF action = "serve_stale_cache"
    THEN IF cache = NoCache \/ FLt(Frac(config.cache_ttl_ms, 1), age)
           THEN [applied |-> FALSE, reason |-> "cache_unavailable"]
           ELSE [applied |-> TRUE, reason |-> "None"]
  ELSE IF action \in {"reject_response", "downgrade_fidelity", "delay_response"}
    THEN [applied |-> TRUE, reason |-> "None"]
  ELSE [applied |-> FALSE, reason |-> "None"]

\* evaluate without the passive-mode override
PassiveOverride_off(config, chosen) == chosen

\* the passive-mode override of DecisionEngine.evaluate
PassiveOverride(config, chosen) ==
  IF config.mode = "passive" THEN Choice("pass_through", "none") ELSE chosen

\* DecisionEngine.ai_anomaly_weight, in hundredths
ai_anomaly_weight == 0

\* scores["integrityRate"] + self.ai_anomaly_weight * ai_avg
RateWithAi(aggregates, ai_avg) ==
  LET total == IF aggregates.total = 0 THEN 1 ELSE aggregates.total
  IN Frac(aggregates.integritySignals * ai_avg.d * 100 + ai_anomaly_weight * ai_avg.n * total,
          total * ai_avg.d * 100)

\* DecisionEngine.evaluate from the aggregation on, at time t: the decision on
\* the window window1 and the cache it leaves
EngineDecide(config, profile, entry, window1, response_text, parsed, response_headers, response_status, cache0, t) ==
  LET aggregates == _aggregate_window(window1)
      scores == _compute_scores(aggregates, profile)
      profile1 == IF config.mode = "strict"
                    THEN [profile EXCEPT !.prefer = "integrity"] ELSE profile
      chosen == _choose_action(config, scores, profile1)
      decision_choice == PassiveOverride(config, chosen)
      ai_used == aggregates.aiAnomalyScoreCount > 0
      ai_avg == IF ai_used
                  THEN Frac(aggregates.aiAnomalyScoreSum, 100 * aggregates.aiAnomalyScoreCount)
                  ELSE Frac(0, 1)
      cache1 == _update_cache(config, cache0, response_text, response_headers,
                              response_status, scores, t)
      applied == _build_effective_response(config, decision_choice.action, parsed,
                                           response_status, cache1, AgeAt(cache1, t))
  IN [window |-> window1,
      cache |-> cache1,
      entry |-> entry,
      decision |->
        [action |-> decision_choice.action,
         tradeoff |-> decision_choice.tradeoff,
         confidence |-> _compute_confidence(config, scores, ai_avg, profile1,
                                            decision_choice.action, ai_used),
         scores |-> scores,
         scoresWithAi |->
           [D_score_ai |-> _compute_score(RateWithAi(aggregates, ai_avg),
                                          profile.integrity_weight),
            aiAnomalyAvg |-> ai_avg],
         aggregates |-> aggregates,
         applied |-> applied.applied,
         appliedReason |-> applied.reason,
         profile |-> profile1],
      delayMs |-> IF decision_choice.action = "delay_response" THEN profile1.delay_ms ELSE 0]

\* DecisionEngine.evaluate at time t: the decision and the state it leaves
EngineEvaluate(config, overrides, pol, observation, response_text, parsed, response_headers, response_status, window0, cache0, t) ==
  LET profile == _get_profile(config, overrides, pol, observation.api, observation.url.path)
      entry == [ts |-> t] @@ _summarize_signals(observation, profile)
  IN EngineDecide(config, profile, entry, WindowAfter(window0, entry, config.window_ms),
                  response_text, parsed, response_headers, response_status, cache0, t)

(* ------------------------- ResponseInterceptor -------------------------- *)
Effective(status, headers, body, modified, modification, actionApplied) ==
  [status |-> status, headers |-> headers, body |-> body, modified |-> modified,
   modification |-> modification, actionApplied |-> actionApplied]

RejectedBody == Dumps(JObj(<< <<"error", JStr("integrity_risk")>> >>))
MetadataBody(response_text, response_status) ==
  Dumps(JObj(<< <<"bodyHash", IF TextTruthy(response_text)
                               THEN [t |-> "sha", of |-> response_text] ELSE JNull>>,
                <<"bodyBytes", IF TextTruthy(response_text)
                                THEN [t |-> "len", of |-> response_text] ELSE JNum(0)>>,
                <<"status", JNum(response_status)>> >>))

\* the mask branch masking whatever parsed as JSON
MaskResponse_any_json(response_text, parsed, response_headers, response_status) ==
  IF parsed # JNull
    THEN Effective(response_status, response_headers,
                   Dumps(_mask_sensitive_fields(parsed, 0)), TRUE,
                   "masked_sensitive_fields", "None")
    ELSE Effective(response_status, response_headers, response_text, FALSE,
                   "mask_skipped_non_json", "None")

\* the mask_sensitive_fields branch of ResponseInterceptor.apply
MaskResponse(response_text, parsed, response_headers, response_status) ==
  IF IsDict(parsed)
    THEN Effective(response_status, response_headers,
                   Dumps(_mask_sensitive_fields(parsed, 0)), TRUE,
                   "masked_sensitive_fields", "None")
    ELSE Effective(response_status, response_headers, response_text, FALSE,
                   "mask_skipped_non_json", "None")

\* the stale-cache branch without the age check
ServeStaleCache_no_ttl(response_text, response_headers, response_status, cache, cache_ttl_ms, age) ==
  IF cache = NoCache
    THEN Effective(response_status, response_headers, response_text, FALSE,
                   "cache_unavailable_pass_through", "pass_through")
    ELSE Effective(cache.status, cache.headers, cache.body, TRUE,
                   "served_stale_cache", "serve_stale_cache")

\* the serve_stale_cache branch of ResponseInterceptor.apply, the entry being
\* age milliseconds old; cache_age_ms is int(age)
ServeStaleCache(response_text, response_headers, response_status, cache, cache_ttl_ms, age) ==
  IF cache = NoCache
    THEN Effective(response_status, response_headers, response_text, FALSE,
                   "cache_unavailable_pass_through", "pass_through")
  ELSE IF int(age) > cache_ttl_ms
    THEN Effective(response_status, response_headers, response_text, FALSE,
                   "cache_expired_pass_through", "pass_through")
  ELSE Effective(cache.status, cache.headers, cache.body, TRUE,
                 "served_stale_cache", "serve_stale_cache")

\* apply with the rejection keeping the live status
apply_reject_keeps_status(action, response_text, parsed, response_headers, response_status, cache, cache_ttl_ms, age) ==
  LET headers == IF response_headers = NoHeaders THEN H0 ELSE response_headers IN
      IF action = "pass_through" \/ response_status = NoStatus
        THEN Effective(response_status, headers, response_text, FALSE, "None", "None")
      ELSE IF action = "mask_sensitive_fields"
        THEN MaskResponse(response_text, parsed, headers, response_status)
      ELSE IF action = "serve_stale_cache"
        THEN ServeStaleCache(response_text, headers, response_status, cache,
                             cache_ttl_ms, age)
      ELSE IF action = "reject_response"
        THEN Effective(response_status, HJson, RejectedBody, TRUE, "rejected", "reject_response")
      ELSE IF action = "downgrade_fidelity"
        THEN Effective(response_status, HJson, MetadataBody(response_text, response_status),
                       TRUE, "metadata_only", "downgrade_fidelity")
      ELSE IF action = "delay_response"
        THEN Effective(response_status, headers, response_text, TRUE,
                       "delayed", "delay_response")
      ELSE Effective(response_status, headers, response_text, FALSE,
                     "None", "pass_through")

\* ResponseInterceptor.apply at time t; headers is "response_headers or {}"
apply(action, response_text, parsed, response_headers, response_status, cache, cache_ttl_ms, age) ==
  LET headers == IF response_headers = NoHeaders THEN H0 ELSE response_headers IN
      IF action = "pass_through" \/ response_status = NoStatus
        THEN Effective(response_status, headers, response_text, FALSE, "None", "None")
      ELSE IF action = "mask_sensitive_fields"
        THEN MaskResponse(response_text, parsed, headers, response_status)
      ELSE IF action = "serve_stale_cache"
        THEN ServeStaleCache(response_text, headers, response_status, cache,
                             cache_ttl_ms, age)
      ELSE IF action = "reject_response"
        THEN Effective(503, HJson, RejectedBody, TRUE, "rejected", "reject_response")
      ELSE IF action = "downgrade_fidelity"
        THEN Effective(response_status, HJson, MetadataBody(response_text, response_status),
                       TRUE, "metadata_only", "downgrade_fidelity")
      ELSE IF action = "delay_response"
        THEN Effective(response_status, headers, response_text, TRUE,
                       "delayed", "delay_response")
      ELSE Effective(response_status, headers, response_text, FALSE,
                     "None", "pass_through")

(* --------------------------- CVEAdvisorySystem -------------------------- *)
\* the vendor whose pattern the lowered URL contains, "None" without one
extract_vendor_from_url(url) ==
  IF url.api = "api.openai.com" THEN "openai" ELSE "None"

\* one entry of a CVE list; score is Box(n) (tenths), Null or Text(s)
CVERecord(severity, score) == [id |-> "CVE-1", severity |-> severity, score |-> score]

\* severity_weights.get(cve.severity, 0.0), in tenths
SeverityWeight(severity) ==
  CASE severity = "CRITICAL" -> 10
    [] severity = "HIGH" -> 7
    [] severity = "MEDIUM" -> 4
    [] severity = "LOW" -> 1
    [] OTHER -> 0

RECURSIVE TotalWeight(_)
TotalWeight(cve_entries) ==
  IF cve_entries = <<>> THEN 0
  ELSE SeverityWeight(Head(cve_entries).severity) + TotalWeight(Tail(cve_entries))

_compute_advisory_score(cve_entries) ==
  IF cve_entries = <<>> THEN Frac(0, 1)
  ELSE IF TotalWeight(cve_entries) > 10 * Len(cve_entries) THEN Frac(1, 1)
  ELSE Frac(TotalWeight(cve_entries), 10 * Len(cve_entries))

_classify_risk(advisory_score, total_cves) ==
  IF FLe(Frac(8, 10), advisory_score) /\ total_cves >= 5 THEN "CRITICAL"
  ELSE IF FLe(Frac(6, 10), advisory_score) \/ total_cves >= 10 THEN "HIGH"
  ELSE IF FLe(Frac(3, 10), advisory_score) \/ total_cves >= 3 THEN "MODERATE"
  ELSE "LOW"

\* get_advisory returned None
NoAdvisory == [none |-> TRUE]
\* CVEAdvisorySystem after __init__ without a readable models/cve_data.json
CVEDisabled == [enabled |-> FALSE, cve_data |-> <<>>]
\* after a load: cve_data is data.get("vendors", {})
CVELoaded(vendors) == [enabled |-> TRUE, cve_data |-> vendors]

\* float(cve.get("score") or cve.get("cvss") or 0.0) raises on a text that is
\* no number, cve.get on an entry that is no mapping
EntryRaises(cve) == ~IsMapping(cve) \/ (cve.score # Null /\ ~IsNumber(cve.score))

\* CVEAdvisorySystem.get_advisory(vendor): whether it raised, and the advisory
get_advisory(cve_system, vendor) ==
  LET data == cve_system.cve_data
      \* the vendor names of the model are their own keys; none contains another
      vendor_data == IF vendor \in DOMAIN data THEN data[vendor] ELSE <<>>
      cve_list == IF "recent_cves" \in DOMAIN vendor_data THEN vendor_data.recent_cves
                  ELSE IF "all" \in DOMAIN vendor_data THEN vendor_data.all
                  ELSE <<>>
  IN IF ~cve_system.enabled THEN [raised |-> FALSE, advisory |-> NoAdvisory]
     \* "vendors" holds no mapping: self.cve_data.get raises
     ELSE IF ~IsMapping(data) THEN [raised |-> TRUE, advisory |-> NoAdvisory]
     ELSE IF vendor_data = <<>> THEN [raised |-> FALSE, advisory |-> NoAdvisory]
     \* the vendor's data is no mapping: vendor_data.get raises
     ELSE IF ~IsMapping(vendor_data) THEN [raised |-> TRUE, advisory |-> NoAdvisory]
     ELSE IF cve_list = <<>> THEN [raised |-> FALSE, advisory |-> NoAdvisory]
     ELSE IF \E i \in DOMAIN cve_list : EntryRaises(cve_list[i])
       THEN [raised |-> TRUE, advisory |-> NoAdvisory]
     ELSE [raised |-> FALSE,
           advisory |->
             [vendor |-> vendor,
              service |-> "all",
              advisory_score |-> _compute_advisory_score(cve_list),
              risk_level |-> _classify_risk(_compute_advisory_score(cve_list), Len(cve_list)),
              total_cves |-> Len(cve_list)]]

(* ----------------------------- ApirisClient ----------------------------- *)
\* the ApirisResponse that ApirisClient.get returns
ApirisResponse(out, parsed_body, decision, effective_response, cve_advisory) ==
  [data |-> IF parsed_body # JNull THEN parsed_body ELSE out.text,
   action |-> decision.action,
   tradeoff |-> decision.tradeoff,
   confidence |-> decision.confidence,
   cad_scores |-> decision.scores,
   status_code |-> out.status,
   headers |-> out.headers,
   raw |-> effective_response.body,
   cve_advisory |-> cve_advisory]

URL(api, path) == [api |-> api, path |-> path]
Apis == {"svc", "alt"}
Urls == {URL(a, p) : a \in Apis, p \in {"/a", "/b"}}
\* the two APIs whose prices are compared, and one of a vendor with advisories
PriceApis == {"coingecko-simple-price", "coingecko-markets"}
Hosts == Apis \cup PriceApis \cup {"api.openai.com"}
AllUrls == Urls \cup {URL(a, "/a") : a \in Hosts \ Apis}

\* the mutable state of the evaluator and the engine of one client
FreshState ==
  [window |-> [a \in Hosts |-> <<>>],
   cache |-> [a \in Hosts |-> NoCache],
   schema_by_api |-> [a \in Hosts |-> NoSchema],
   last_response_by_signature |-> [u \in AllUrls |-> NoPrevious],
   anomaly_runtime |-> [a \in Hosts |-> NoRuntime],
   latest_prices |-> NoPrices]

\* one DecisionEngineState for every API
_get_state_shared(st, api) == [window |-> st.window["svc"], cache |-> st.cache["svc"]]

\* DecisionEngine._get_state(api): self.state[api]
_get_state(st, api) == [window |-> st.window[api], cache |-> st.cache[api]]

\* ObservationEvaluator.evaluate as ApirisClient.get calls it at time t on the
\* state st: the observation and the evaluator's state after it
Observed(cfg, scorer, st, url, out, t) ==
  LET api == url.api
      parsed_body == _safe_json_parse(out.text)
      prev == st.last_response_by_signature[url]
      scored == AnomalyResult(cfg, scorer, api, parsed_body, out.text,
                              st.anomaly_runtime[api], t, out.ai)
      observation == Observation(api, url, out, out.timing_ms, 0, scored.result,
                                 st.schema_by_api[api], prev, st.latest_prices, t)
  IN [observation |-> observation,
      state |->
        [st EXCEPT
           !.schema_by_api[api] = SchemaAfter(observation, @),
           !.last_response_by_signature[url] = SignatureAfter(observation, prev, t),
           !.anomaly_runtime[api] = scored.state,
           !.latest_prices =
             _build_cross_endpoint_inconsistencies(@, api, parsed_body, "usd").latest_prices]]

\* ApirisClient.get(url) at time t on the state st, the transport giving out:
\* the state it leaves, whether it raised, and what it returns
get(cfg, profs, pol, scorer, cve, st, url, out, t) ==
  LET api == url.api
      parsed_body == _safe_json_parse(out.text)
      observation == Observed(cfg, scorer, st, url, out, t).observation
      observed == Observed(cfg, scorer, st, url, out, t).state
      result == EngineEvaluate(cfg, profs[api], pol, observation, out.text, parsed_body,
                               out.headers, out.status, _get_state(st, api).window,
                               _get_state(st, api).cache, t)
      effective_response == apply(result.decision.action, out.text, parsed_body, out.headers,
                                  out.status, result.cache, cfg.cache_ttl_ms,
                                  AgeAt(result.cache, t))
      vendor == extract_vendor_from_url(url)
      looked_up == IF cve.enabled /\ vendor # "None"
                     THEN get_advisory(cve, vendor)
                     ELSE [raised |-> FALSE, advisory |-> NoAdvisory]
  IN IF PolicyRaises(pol, api, url.path)
       \* DecisionEngine.evaluate raises in _get_profile, and get with it
       THEN [raised |-> "policy", state |-> observed, observation |-> observation]
     ELSE IF looked_up.raised
       \* get_advisory raises after the decision is made, and get with it
       THEN [raised |-> "advisory",
             state |-> [observed EXCEPT !.window[api] = result.window,
                                        !.cache[api] = result.cache],
             observation |-> observation]
     ELSE [raised |-> "None",
           state |-> [observed EXCEPT !.window[api] = result.window,
                                      !.cache[api] = result.cache],
           parsed |-> parsed_body,
           observation |-> observation,
           entry |-> result.entry,
           decision |-> result.decision,
           delayMs |-> result.delayMs,
           effective |-> effective_response,
           response |-> ApirisResponse(out, parsed_body, result.decision,
                                       effective_response, looked_up.advisory)]

(* ------------------------------ state ---------------------------------- *)
VARIABLES
  config,                      \* ApirisClient.config
  profiles,                    \* DecisionEngine.profiles
  policy,                      \* DecisionEngine.policy_manager
  anomaly_scorer,              \* ObservationEvaluator.anomaly_scorer
  cve_system,                  \* ApirisClient.cve_system
  now,                         \* time.time() * 1000
  calls,                       \* calls of ApirisClient.get so far
  window,                      \* DecisionEngine.state[api].window
  cache,                       \* DecisionEngine.state[api].cache
  schema_by_api,               \* ObservationEvaluator.schema_by_api
  last_response_by_signature,  \* ObservationEvaluator.last_response_by_signature
  anomaly_runtime,             \* ObservationEvaluator.anomaly_runtime
  latest_prices,               \* ObservationEvaluator.latest_prices
  threads,                     \* the calls of DecisionEngine.evaluate under way
  history,                     \* the calls made so far, oldest first
  last                         \* the latest call: its inputs and what it returned

vars == <<config, profiles, policy, anomaly_scorer, cve_system, now, calls, window, cache,
          schema_by_api, last_response_by_signature, anomaly_runtime, latest_prices,
          threads, history, last>>

\* what ApirisClient.__init__ leaves alone afterwards
constructed == <<config, profiles, policy, anomaly_scorer, cve_system>>
\* the state of the evaluator and the engine
mutable == <<window, cache, schema_by_api, last_response_by_signature, anomaly_runtime,
             latest_prices>>

State ==
  [window |-> window,
   cache |-> cache,
   schema_by_api |-> schema_by_api,
   last_response_by_signature |-> last_response_by_signature,
   anomaly_runtime |-> anomaly_runtime,
   latest_prices |-> latest_prices]

Config(mode, integrity_threshold, availability_threshold) ==
  [mode |-> mode,
   integrity_threshold |-> integrity_threshold,
   availability_threshold |-> availability_threshold,
   anomaly_threshold |-> 50,
   enable_ai |-> TRUE,
   window_ms |-> 1000,
   cache_ttl_ms |-> 3000,
   latency_budget_ms |-> 1000]

\* a model file with a forest for every API
AllForests == [a \in Hosts |-> "forest"]

\* the state after ApirisClient.__init__: the evaluator has the scorer only
\* under enable_ai
InitClient(configs, policies, models, cves) ==
  /\ config \in configs
  /\ profiles = [a \in Hosts |-> <<>>]
  /\ policy \in policies
  /\ anomaly_scorer \in IF config.enable_ai
                          THEN {IF m = NoScorer THEN NoScorer
                                ELSE AnomalyScorer(m, config.anomaly_threshold) : m \in models}
                          ELSE {NoScorer}
  /\ cve_system \in cves
  /\ now = 0
  /\ calls = 0
  /\ window = FreshState.window
  /\ cache = FreshState.cache
  /\ schema_by_api = FreshState.schema_by_api
  /\ last_response_by_signature = FreshState.last_response_by_signature
  /\ anomaly_runtime = FreshState.anomaly_runtime
  /\ latest_prices = FreshState.latest_prices
  /\ threads = <<>>
  /\ history = <<>>
  /\ last = [kind |-> "init"]

\* the same with a forest for every API and no CVE data
InitWith(configs, policies) == InitClient(configs, policies, {AllForests}, {CVEDisabled})

\* ApirisClient.get(url): the transport gives out, dt ms after the last call
GetWithin(limit, url, out, dt) ==
  /\ calls < limit
  /\ \E t \in {now + dt} :
     \E got \in {get(config, profiles, policy, anomaly_scorer, cve_system, State, url, out, t)} :
        /\ now' = t
        /\ calls' = calls + 1
        /\ window' = got.state.window
        /\ cache' = got.state.cache
        /\ schema_by_api' = got.state.schema_by_api
        /\ last_response_by_signature' = got.state.last_response_by_signature
        /\ anomaly_runtime' = got.state.anomaly_runtime
        /\ latest_prices' = got.state.latest_prices
        /\ history' = Append(history, [url |-> url, out |-> out, t |-> t,
                                       observation |-> got.observation])
        /\ last' = IF got.raised # "None"
                     THEN [kind |-> "raised", stage |-> got.raised, url |-> url, out |-> out,
                           t |-> t, before |-> State]
                     ELSE [kind |-> "get",
                           url |-> url,
                           out |-> out,
                           t |-> t,
                           parsed |-> got.parsed,
                           observation |-> got.observation,
                           entry |-> got.entry,
                           decision |-> got.decision,
                           delayMs |-> got.delayMs,
                           effective |-> got.effective,
                           response |-> got.response,
                           before |-> State,
                           window_before |-> window[url.api],
                           cache_before |-> cache[url.api]]
  /\ UNCHANGED <<constructed, threads>>

Get(url, out, dt) == GetWithin(MaxCalls, url, out, dt)

(* Calls made from several threads. The interpreter switches threads between
   bytecodes, so a call of DecisionEngine.evaluate is taken in the steps that
   read or write api_state.window and api_state.cache; what a thread holds in
   its own frame (profile, entry, the filtered list) is in its record. *)
\* ApirisClient.get up to the entry of DecisionEngine.evaluate: the observation
\* is made, the profile and the entry of the call are computed
StartEvaluate(limit, url, out, dt) ==
  /\ Len(threads) < limit
  /\ ~PolicyRaises(policy, url.api, url.path)
  /\ \E t \in {now + dt} :
     \E seen \in {Observed(config, anomaly_scorer, State, url, out, t)} :
     \E profile \in {_get_profile(config, profiles[url.api], policy, url.api, url.path)} :
        /\ now' = t
        /\ calls' = calls + 1
        /\ schema_by_api' = seen.state.schema_by_api
        /\ last_response_by_signature' = seen.state.last_response_by_signature
        /\ anomaly_runtime' = seen.state.anomaly_runtime
        /\ latest_prices' = seen.state.latest_prices
        /\ threads' = Append(threads,
                             [pc |-> "entered",
                              url |-> url,
                              out |-> out,
                              profile |-> profile,
                              entry |-> [ts |-> t] @@ _summarize_signals(seen.observation, profile),
                              filtered |-> <<>>])
        /\ history' = Append(history, [url |-> url, out |-> out, t |-> t,
                                       observation |-> seen.observation])
  /\ UNCHANGED <<constructed, window, cache, last>>

\* api_state.window.append(entry)
AppendEntry(i) ==
  /\ threads[i].pc = "entered"
  /\ window' = [window EXCEPT ![threads[i].url.api] = Append(@, threads[i].entry)]
  /\ threads' = [threads EXCEPT ![i].pc = "appended"]
  /\ UNCHANGED <<constructed, now, calls, cache, schema_by_api, last_response_by_signature,
                 anomaly_runtime, latest_prices, history, last>>

\* [item for item in api_state.window if item["ts"] >= entry["ts"] - self.window_ms]
FilterWindow(i) ==
  /\ threads[i].pc = "appended"
  /\ threads' = [threads EXCEPT
                   ![i].pc = "filtered",
                   ![i].filtered =
                     SelectSeq(window[threads[i].url.api],
                               LAMBDA item : item.ts >= threads[i].entry.ts - config.window_ms)]
  /\ UNCHANGED <<constructed, mutable, now, calls, history, last>>

\* api_state.window = the filtered list
AssignWindow(i) ==
  /\ threads[i].pc = "filtered"
  /\ window' = [window EXCEPT ![threads[i].url.api] = threads[i].filtered]
  /\ threads' = [threads EXCEPT ![i].pc = "assigned"]
  /\ UNCHANGED <<constructed, now, calls, cache, schema_by_api, last_response_by_signature,
                 anomaly_runtime, latest_prices, history, last>>

\* the rest of DecisionEngine.evaluate: aggregates, scores, choice, cache
Decide(i) ==
  /\ threads[i].pc = "assigned"
  /\ \E th \in {threads[i]} :
     \E result \in {EngineDecide(config, th.profile, th.entry, window[th.url.api], th.out.text,
                                 _safe_json_parse(th.out.text), th.out.headers, th.out.status,
                                 cache[th.url.api], now)} :
        /\ cache' = [cache EXCEPT ![th.url.api] = result.cache]
        /\ threads' = [threads EXCEPT ![i].pc = "done"]
        /\ last' = [kind |-> "evaluate", thread |-> i, url |-> th.url, out |-> th.out,
                    entry |-> th.entry, decision |-> result.decision]
  /\ UNCHANGED <<constructed, now, calls, window, schema_by_api, last_response_by_signature,
                 anomaly_runtime, latest_prices, history>>

\* ResponseInterceptor.apply called on its own, at time t
Apply(action, out, cached, t) ==
  /\ last' = [kind |-> "apply",
              action |-> action,
              out |-> out,
              parsed |-> _safe_json_parse(out.text),
              cache |-> cached,
              t |-> t,
              effective |-> apply(action, out.text, _safe_json_parse(out.text),
                                  out.headers, out.status, cached,
                                  config.cache_ttl_ms, AgeAt(cached, t))]
  /\ UNCHANGED <<constructed, mutable, now, calls, threads, history>>

\* _build_effective_response and ResponseInterceptor.apply on the same action,
\* live response and cache entry, at the instant the entry is age ms old
Synthesize(action, out, cached, age) ==
  /\ last' = [kind |-> "synthesize",
              action |-> action,
              out |-> out,
              parsed |-> _safe_json_parse(out.text),
              cache |-> cached,
              age |-> age,
              applied |-> _build_effective_response(config, action,
                                                    _safe_json_parse(out.text),
                                                    out.status, cached, age),
              effective |-> apply(action, out.text, _safe_json_parse(out.text),
                                  out.headers, out.status, cached,
                                  config.cache_ttl_ms, age)]
  /\ UNCHANGED <<constructed, mutable, now, calls, threads, history>>

(* --------------------------- specifications ---------------------------- *)
Modes == {"passive", "enforce", "strict"}
Configs == {Config(m, i, 40) : m \in Modes, i \in {50, 60}}

\* availability_threshold lowered for every API
PolicyGlobal ==
  [on |-> TRUE,
   global |-> [availability_threshold |-> Box(0)],
   services |-> <<>>,
   endpoints |-> <<>>]
\* a stricter integrity threshold and prefer for the service "svc"
PolicyService ==
  [on |-> TRUE,
   global |-> EmptyLayer,
   services |-> [svc |-> [integrity_threshold |-> Box(80), prefer |-> Box("integrity")]],
   endpoints |-> <<>>]
Policies == {NoPolicy, PolicyGlobal, PolicyService}

Outcomes ==
  {Failed(ErrTimeout),
   Responded(200, HJson, "ok1"), Responded(200, HJson, "ok2"),
   Responded(200, HJson, "pw"), Responded(200, H0, "ok1"),
   Responded(500, HJson, "ok1"), Responded(500, HJson, "err"),
   Responded(500, HJson, ""),
   After(Responded(200, HJson, "ok1"), 1500),
   Scored(Responded(200, HJson, "ok2"), 90)}
Gaps == {100, 2000}
MainUrls == {URL("svc", "/a")}

Init == InitWith(Configs, Policies)
Next == \E url \in MainUrls, out \in Outcomes, dt \in Gaps : Get(url, out, dt)
Spec == Init /\ [][Next]_vars

\* ResponseInterceptor.apply over its inputs: every action value, live
\* response, cache entry and instant
ActionValues ==
  {"pass_through", "mask_sensitive_fields", "serve_stale_cache", "reject_response",
   "downgrade_fidelity", "delay_response", "unknown_action"}
\* no response, passed on with response_headers = None
Unanswered == [Failed(ErrConnection) EXCEPT !.headers = NoHeaders]
LiveResponses ==
  {Failed(ErrTimeout), Responded(200, HJson, "pw"), Responded(200, HCookie, "arr"),
   Responded(500, HJson, "err"), Responded(500, H0, ""), Responded(429, HLimited, "ok1"),
   Unanswered, Responded(500, NoHeaders, "err"), Responded(200, HJson, "deep")}
CacheEntry(status, headers, id, ts) ==
  [ts |-> ts, status |-> status, headers |-> headers, body |-> Wire(id),
   content_type |-> HeaderGet(headers, "content-type")]
CacheStates == {NoCache, CacheEntry(200, HJson, "ok2", 0)}
Instants == {0, 3000, 3001}

InitApply == InitWith({Config("enforce", 60, 40)}, {NoPolicy})
NextApply ==
  \E action \in ActionValues, out \in LiveResponses, cached \in CacheStates, t \in Instants :
    Apply(action, out, cached, t)
SpecApply == InitApply /\ [][NextApply]_vars

(* DecisionEngine._get_profile on its own, over policies of three layers *)
PolicyLayers ==
  {EmptyLayer,
   [integrity_threshold |-> Box(30)],
   [integrity_threshold |-> Box(70), integrity_weight |-> Box(200)],
   [integrity_weight |-> Null],
   [prefer |-> Box("integrity")],
   [prefer |-> Box("availability"), force_integrity_priority |-> Box(FALSE)],
   [force_integrity_priority |-> Box(TRUE)],
   [availability_delay_threshold |-> Box(90), scope |-> Box("service")]}
\* a policy with layer g for every API, s for the service "svc" and e for its
\* endpoint "/a"
PolicyOf(g, s, e) ==
  [on |-> TRUE,
   global |-> g,
   services |-> [svc |-> s],
   endpoints |-> [svc |-> [a \in {"/a"} |-> e]]]
LayeredPolicies == {PolicyOf(g, s, e) : g \in PolicyLayers, s \in PolicyLayers, e \in PolicyLayers}

\* self._get_profile(api, endpoint), beside the profile the engine has without
\* its policy manager
Resolve(api, endpoint) ==
  /\ last' = IF PolicyRaises(policy, api, endpoint)
               THEN [kind |-> "raised", api |-> api, endpoint |-> endpoint]
               ELSE [kind |-> "resolve",
                     api |-> api,
                     endpoint |-> endpoint,
                     profile |-> _get_profile(config, profiles[api], NoPolicy, api, endpoint),
                     resolved |-> _get_profile(config, profiles[api], policy, api, endpoint)]
  /\ UNCHANGED <<constructed, mutable, now, calls, threads, history>>

InitPolicy == InitWith({Config("enforce", 60, 40)}, LayeredPolicies)
\* urlparse(url).path is "" for a URL without a path
NextPolicy == \E api \in Apis, endpoint \in {"/a", "/b", ""} : Resolve(api, endpoint)
SpecPolicy == InitPolicy /\ [][NextPolicy]_vars

(* the first call of a client, over the whole range of thresholds *)
PolicyAllOne ==
  [on |-> TRUE,
   global |-> [confidentiality_threshold |-> Box(100),
               availability_threshold |-> Box(100),
               integrity_threshold |-> Box(100)],
   services |-> <<>>,
   endpoints |-> <<>>]
FirstConfigs == {Config(m, i, a) : m \in Modes, i \in {0, 60, 100}, a \in {0, 40, 100}}
InitFirst == InitWith(FirstConfigs, {NoPolicy, PolicyAllOne})
NextFirst ==
  \E out \in Outcomes, dt \in Gaps : GetWithin(1, URL("svc", "/a"), out, dt)
SpecFirst == InitFirst /\ [][NextFirst]_vars

(* longer runs of calls to one API, for the window *)
MaxWindowCalls == 3
WindowOutcomes ==
  {Responded(200, HJson, "ok1"), Responded(200, HJson, "pw"),
   Responded(500, HJson, "err"), Scored(Responded(200, HJson, "ok2"), 90)}
WindowGaps == {0, 100, 600, 2000}
InitWindow == InitWith({Config("enforce", 60, 40)}, {NoPolicy})
NextWindow ==
  \E out \in WindowOutcomes, dt \in WindowGaps :
    GetWithin(MaxWindowCalls, URL("svc", "/a"), out, dt)
SpecWindow == InitWindow /\ [][NextWindow]_vars

(* a client constructed with a policy file, well-formed or not *)
Sections(g, s, e) == [form |-> "sections", global |-> g, services |-> s, endpoints |-> e]
RawPolicies ==
  {[form |-> "unparsable"],
   \* "- a": no mapping at the top
   [form |-> "list"],
   \* "policies: not-a-list"
   [form |-> "policies_scalar"],
   \* "global: oops"
   Sections(Scalar, <<>>, <<>>),
   \* "services: {svc: oops}"
   Sections(EmptyLayer, [svc |-> Scalar], <<>>),
   Sections([integrity_threshold |-> Box(150)], <<>>, <<>>),
   Sections(EmptyLayer, [svc |-> [availability_threshold |-> Box(0 - 10)]], <<>>),
   Sections(EmptyLayer, <<>>,
            [svc |-> [ep \in {"/a"} |-> [confidentiality_threshold |-> Text("high")]]]),
   Sections([integrity_threshold |-> Null], <<>>, <<>>),
   Sections([prefer |-> Box("fastest")], <<>>, <<>>),
   \* a good layer for "svc" beside a bad one for "alt"
   Sections([integrity_threshold |-> Box(30)], <<>>,
            [alt |-> [ep \in {"/b"} |-> [availability_threshold |-> Box(150)]]]),
   Sections([integrity_threshold |-> Box(NaN)], <<>>, <<>>),
   Sections([integrity_threshold |-> Box(100), prefer |-> Box("integrity")],
            [svc |-> [availability_threshold |-> Box(0)]], <<>>),
   [form |-> "policies",
    entries |-> << PolicyEntry("global", "", "", [integrity_threshold |-> Box(30)]),
                   PolicyEntry("service", "svc", "", [availability_threshold |-> Box(40)]),
                   PolicyEntry("endpoint", "svc", "/a",
                               [confidentiality_threshold |-> Box(20)]) >>],
   [form |-> "policies",
    entries |-> << PolicyEntry("global", "", "", [integrity_threshold |-> Box(30)]),
                   PolicyEntry("endpoint", "svc", "/a",
                               [confidentiality_threshold |-> Box(120)]) >>]}

\* a layer of the policy carries a NaN threshold
CarriesNaN(pol) ==
  /\ IsMapping(pol.global)
  /\ \E key \in ThresholdKeys \cap DOMAIN pol.global : pol.global[key] = Box(NaN)

InitLoad ==
  InitWith({Config(m, 60, 40) : m \in {"enforce", "passive"}},
           {ClientPolicy(raw) : raw \in RawPolicies})
\* the engine's arithmetic is on numbers: no call is made under a NaN threshold
NextLoad ==
  \/ \E api \in Apis, endpoint \in {"/a", "/b", ""} : Resolve(api, endpoint)
  \/ /\ ~CarriesNaN(policy)
     /\ \E url \in Urls, out \in WindowOutcomes, dt \in Gaps : GetWithin(1, url, out, dt)
SpecLoad == InitLoad /\ [][NextLoad]_vars

(* _mask_sensitive_fields on its own *)
MaxNest == 2
MaskKeys == {"password", "Token", "id"}
JsonScalars == {JNull, JBool(TRUE), JNum(1), JStr("x"), JStr("[MASKED]")}
\* the JSON values nested at most n deep, one member per container
RECURSIVE JsonValues(_)
JsonValues(n) ==
  IF n = 0 THEN JsonScalars
  ELSE LET inner == JsonValues(n - 1)
       IN inner \cup {JObj(<< <<k, v>> >>) : k \in MaskKeys, v \in inner}
                \cup {JArr(<< v >>) : v \in inner}
MaskInputs ==
  JsonValues(MaxNest) \cup {WireJson(id) : id \in {"ok1", "ok2", "pw", "arr", "deep"}}

\* _mask_sensitive_fields(value), and the same applied to its result
Mask(value) ==
  /\ last' = [kind |-> "mask",
              value |-> value,
              once |-> _mask_sensitive_fields(value, 0),
              twice |-> _mask_sensitive_fields(_mask_sensitive_fields(value, 0), 0)]
  /\ UNCHANGED <<constructed, mutable, now, calls, threads, history>>

NextMask == \E value \in MaskInputs : Mask(value)
SpecMask == InitApply /\ [][NextMask]_vars

(* clients with and without a scorer, over what the forest does with a call *)
MaxAiCalls == 3
\* enable_ai on and off
AiConfigs == {Config("enforce", 60, 40), [Config("enforce", 60, 40) EXCEPT !.enable_ai = FALSE]}
\* AnomalyScorer(...) raised, or a model file with a forest, with an entry
\* without trees, or with no entry for "svc"
AiModels ==
  {NoScorer, AllForests, [AllForests EXCEPT !["svc"] = "empty"],
   [AllForests EXCEPT !["svc"] = "none"]}
AiOutcomes ==
  {Responded(200, HJson, "ok1"), Scored(Responded(200, HJson, "ok1"), 30),
   Scored(Responded(200, HJson, "ok1"), 90), Scored(Responded(200, HJson, "arr"), 90),
   Scored(Responded(200, HJson, ""), 30), Scored(Failed(ErrTimeout), 30),
   Scored(Responded(200, HJson, "deep"), 90)}
InitAi == InitClient(AiConfigs, {NoPolicy}, AiModels, {CVEDisabled})
NextAi == \E out \in AiOutcomes : GetWithin(MaxAiCalls, URL("svc", "/a"), out, 100)
SpecAi == InitAi /\ [][NextAi]_vars

(* clients over the contents of models/cve_data.json *)
CVESystems ==
  {CVEDisabled,
   \* {"vendors": {}}
   CVELoaded(<<>>),
   CVELoaded([openai |-> [recent_cves |-> << CVERecord("HIGH", Box(75)),
                                             CVERecord("CRITICAL", Null) >>]]),
   \* the old structure
   CVELoaded([openai |-> [all |-> << CVERecord("LOW", Box(20)) >>]]),
   CVELoaded([anthropic |-> [recent_cves |-> << CVERecord("HIGH", Box(75)) >>]]),
   \* {"vendors": "oops"}
   CVELoaded(Scalar),
   \* {"vendors": {"openai": "oops"}}
   CVELoaded([openai |-> Scalar]),
   \* a score that is no number: "score": "n/a"
   CVELoaded([openai |-> [recent_cves |-> << CVERecord("HIGH", Text("n/a")) >>]]),
   \* an entry that is no mapping: "recent_cves": ["oops"]
   CVELoaded([openai |-> [recent_cves |-> << Scalar >>]])}
AdvisoryUrls == {URL("api.openai.com", "/a"), URL("svc", "/a")}
AdvisoryOutcomes ==
  {Responded(200, HJson, "ok1"), Responded(200, HJson, "pw"), Responded(500, HJson, "err"),
   Failed(ErrTimeout)}
InitAdvisory == InitClient({Config("enforce", 60, 40)}, {NoPolicy}, {AllForests}, CVESystems)
NextAdvisory == \E url \in AdvisoryUrls, out \in AdvisoryOutcomes : Get(url, out, 100)
SpecAdvisory == InitAdvisory /\ [][NextAdvisory]_vars

(* calls for several APIs in turn, the two price APIs among them *)
MaxPartitionCalls == 3
PartitionUrls == {URL(a, "/a") : a \in {"svc"} \cup PriceApis}
PartitionOutcomes ==
  {Responded(200, HJson, "ok1"), Responded(200, HJson, "s1"),
   Scored(Responded(200, HJson, "m2"), 90)}
InitPartition == InitWith({Config("enforce", 60, 40)}, {NoPolicy})
NextPartition ==
  \E url \in PartitionUrls, out \in PartitionOutcomes :
    GetWithin(MaxPartitionCalls, url, out, 100)
SpecPartition == InitPartition /\ [][NextPartition]_vars

(* calls for one API from several threads of one process *)
MaxThreads == 2
ThreadOutcomes ==
  {Responded(200, HJson, "ok1"), Responded(200, HJson, "pw"), Responded(500, HJson, "err")}
ThreadGaps == {0, 100}
InitThreads == InitWith({Config("enforce", 60, 40)}, {NoPolicy})
NextThreads ==
  \/ \E out \in ThreadOutcomes, dt \in ThreadGaps :
       StartEvaluate(MaxThreads, URL("svc", "/a"), out, dt)
  \/ \E i \in DOMAIN threads : AppendEntry(i)
  \/ \E i \in DOMAIN threads : FilterWindow(i)
  \/ \E i \in DOMAIN threads : AssignWindow(i)
  \/ \E i \in DOMAIN threads : Decide(i)
SpecThreads == InitThreads /\ [][NextThreads]_vars

(* strict and enforce clients under policies that set prefer and
   integrity_threshold at every layer *)
StrictLayers ==
  {EmptyLayer,
   [integrity_threshold |-> Box(30)],
   [prefer |-> Box("availability"), force_integrity_priority |-> Box(FALSE)],
   [integrity_threshold |-> Box(90), prefer |-> Box("availability")]}
StrictPolicies == {PolicyOf(g, s, e) : g \in StrictLayers, s \in StrictLayers, e \in StrictLayers}
StrictOutcomes ==
  {Responded(200, HJson, "ok1"), Responded(200, HJson, "ok2"), Responded(500, HJson, "err")}
InitStrict == InitWith({Config("strict", 60, 40), Config("enforce", 60, 40)}, StrictPolicies)
NextStrict == \E out \in StrictOutcomes : Get(URL("svc", "/a"), out, 100)
SpecStrict == InitStrict /\ [][NextStrict]_vars

(* the engine's record and the interceptor's result side by side; the clock
   is a float, so an entry's age need not be a whole number of milliseconds *)
Ages == {Frac(0, 1), Frac(3000, 1), Frac(6001, 2), Frac(3001, 1)}
NextSynthesize ==
  \E action \in ActionValues, out \in LiveResponses, cached \in CacheStates, age \in Ages :
    Synthesize(action, out, cached, age)
SpecSynthesize == InitApply /\ [][NextSynthesize]_vars

(* calls the transport fails, with and without a timeout *)
TransportOutcomes ==
  {Failed(ErrConnection), Failed(ErrConnectionUrl), After(Failed(ErrConnection), 1500),
   Failed(ErrTimeout), Responded(200, HJson, "pw"), Responded(500, HJson, "err")}
InitTransport == InitWith(Configs, {NoPolicy})
NextTransport == \E out \in TransportOutcomes : Get(URL("svc", "/a"), out, 100)
SpecTransport == InitTransport /\ [][NextTransport]_vars

(* ------------------------------ claims --------------------------------- *)
IsGet == last.kind = "get"
IsApply == last.kind = "apply"
\* score < pct / 100
Below(score, pct) == score.n * 100 < pct * score.d
LastScores == last.decision.scores
LastProfile == last.decision.profile
CLow == Below(LastScores.C_score, LastProfile.confidentiality_threshold)
ALow == Below(LastScores.A_score, LastProfile.availability_threshold)
DLow == Below(LastScores.D_score, LastProfile.integrity_threshold)
Decided(action, tradeoff) ==
  last.decision.action = action /\ last.decision.tradeoff = tradeoff

\* C1: in enforce mode the action and tradeoff are those of the first rule
\* that matches, in the order: C low -> mask; A low, D not low -> stale cache;
\* D low, A not low -> reject; both low -> stale cache if prefer is
\* availability, else downgrade; A below the delay threshold -> delay;
\* otherwise pass through.
C1_FirstMatchingRule ==
  (IsGet /\ config.mode = "enforce") =>
    /\ CLow => Decided("mask_sensitive_fields", "confidentiality_over_completeness")
    /\ (~CLow /\ ALow /\ ~DLow) =>
         Decided("serve_stale_cache", "availability_over_integrity")
    /\ (~CLow /\ DLow /\ ~ALow) =>
         Decided("reject_response", "integrity_over_availability")
    /\ (~CLow /\ ALow /\ DLow /\ LastProfile.prefer = "availability") =>
         Decided("serve_stale_cache", "availability_over_integrity")
    /\ (~CLow /\ ALow /\ DLow /\ LastProfile.prefer # "availability") =>
         Decided("downgrade_fidelity", "integrity_over_availability")
    /\ (/\ ~CLow /\ ~ALow /\ ~DLow
        /\ Below(LastScores.A_score, LastProfile.availability_delay_threshold)) =>
         Decided("delay_response", "integrity_over_availability")
    /\ (/\ ~CLow /\ ~ALow /\ ~DLow
        /\ ~Below(LastScores.A_score, LastProfile.availability_delay_threshold)) =>
         Decided("pass_through", "none")
\* two rules match (C low, and D low with A not low) and the first one is taken
C1_Witness ==
  /\ IsGet /\ config.mode = "enforce"
  /\ CLow /\ DLow /\ ~ALow
  /\ last.decision.action = "mask_sensitive_fields"

\* C2: in strict mode a window-aggregated D_score below the integrity threshold
\* gives reject_response, integrity_over_availability and confidence 1.0,
\* whatever A_score and C_score are.
C2_StrictFloor ==
  (/\ IsGet /\ config.mode = "strict"
   /\ Below(LastScores.D_score, config.integrity_threshold)) =>
    /\ Decided("reject_response", "integrity_over_availability")
    /\ last.decision.confidence = 100
C2_Witness ==
  /\ IsGet /\ config.mode = "strict"
  /\ Below(LastScores.D_score, config.integrity_threshold)
  /\ CLow /\ ALow
  /\ last.decision.action = "reject_response"

\* the retained entries of a window after entry e is appended
Retained(w, e, window_ms) ==
  SelectSeq(Append(w, e), LAMBDA x : e.ts - x.ts <= window_ms)
\* what the same call gives in enforce mode
InEnforceMode ==
  EngineEvaluate([config EXCEPT !.mode = "enforce"], profiles[last.url.api], policy,
                 last.observation, last.out.text, last.parsed, last.out.headers,
                 last.out.status, last.window_before, last.cache_before, last.t)

\* C3: in passive mode every decision is pass_through / none with confidence
\* 1.0, while the window is appended and pruned and the scores are computed
\* and recorded as in enforce mode.
C3_PassiveObserves ==
  (IsGet /\ config.mode = "passive") =>
    /\ Decided("pass_through", "none")
    /\ last.decision.confidence = 100
    /\ last.entry.ts = last.t
    /\ window[last.url.api] = Retained(last.window_before, last.entry, config.window_ms)
    /\ window[last.url.api] = InEnforceMode.window
    /\ LastScores = InEnforceMode.decision.scores
\* a passive call with C low and an old entry pruned
C3_Witness ==
  /\ IsGet /\ config.mode = "passive"
  /\ CLow
  /\ last.window_before # <<>>
  /\ Len(window[last.url.api]) = 1
  /\ last.decision.action = "pass_through"

\* C4: a D_score equal to the integrity threshold gives neither
\* reject_response nor downgrade_fidelity, in every mode.
C4_EqualIsNoBreach ==
  (/\ IsGet
   /\ LastScores.D_score.n * 100 = LastProfile.integrity_threshold * LastScores.D_score.d) =>
    last.decision.action \notin {"reject_response", "downgrade_fidelity"}
C4_Witness ==
  /\ IsGet /\ config.mode = "strict"
  /\ LastScores.D_score.n * 100 = LastProfile.integrity_threshold * LastScores.D_score.d
  /\ ALow
  /\ last.decision.action = "serve_stale_cache"

\* a fresh client called the same URL twice and got status 500 both times,
\* with integrity_threshold = 0.6
TwoFailures ==
  /\ IsGet /\ Len(history) = 2
  /\ config.integrity_threshold = 60
  /\ history[1].url = history[2].url
  /\ history[1].out.status = 500 /\ history[2].out.status = 500

C6_CallerGetsEffective ==
  (/\ IsGet
   /\ last.effective.modified
   /\ last.decision.action \in {"mask_sensitive_fields", "reject_response",
                                "serve_stale_cache", "downgrade_fidelity"}) =>
    /\ last.response.raw = last.effective.body
    /\ last.response.status_code = last.effective.status
    /\ last.response.data \in {last.effective.body, _safe_json_parse(last.effective.body)}

\* C7: a call whose D_score is below the resolved profile's integrity
\* threshold leaves the API's cache entry untouched.
C7_CacheOnlyAboveThreshold ==
  (IsGet /\ DLow) => cache[last.url.api] = last.cache_before

(* claims about ResponseInterceptor.apply, under SpecApply *)
Live == last.out
Out == last.effective
\* the live parts exactly as passed in
LivePartsUnchanged ==
  /\ Out.status = Live.status
  /\ Out.headers = Live.headers
  /\ Out.body = Live.text
  /\ Out.modified = FALSE
\* the live parts, absent headers being returned as the empty mapping
LivePartsKept ==
  /\ Out.status = Live.status
  /\ Out.headers = (IF Live.headers = NoHeaders THEN H0 ELSE Live.headers)
  /\ Out.body = Live.text
  /\ Out.modified = FALSE
SyntheticRejection ==
  /\ Out.status = 503
  /\ Out.body = Dumps(JObj(<< <<"error", JStr("integrity_risk")>> >>))

\* C8 as stated: for reject_response apply returns status 503 with the
\* synthetic JSON body, for every live response, one with no status included.
C8_RejectionAlways ==
  (IsApply /\ last.action = "reject_response") => SyntheticRejection
\* C8 amended: for reject_response apply returns status 503 with the synthetic
\* JSON body for every live response that has a status; a call with no
\* response status gets its live parts back, unmodified.
C8_RejectionWithStatus ==
  (IsApply /\ last.action = "reject_response") =>
    /\ Live.status # NoStatus => (SyntheticRejection /\ Out.modified)
    /\ Live.status = NoStatus => LivePartsKept
C8_Witness ==
  /\ IsApply /\ last.action = "reject_response"
  /\ Live.status = 500 /\ Live.text = EmptyText
  /\ Out.status = 503 /\ Out.modified

Stale == IsApply /\ last.action = "serve_stale_cache"
CacheUsable ==
  last.cache # NoCache /\ last.t - last.cache.ts <= config.cache_ttl_ms
CacheServed ==
  /\ Out.status = last.cache.status
  /\ Out.headers = last.cache.headers
  /\ Out.body = last.cache.body
StaleFallbackTag ==
  /\ Out.modification =
       IF last.cache = NoCache THEN "cache_unavailable_pass_through"
                               ELSE "cache_expired_pass_through"
  /\ Out.actionApplied = "pass_through"

NotExecutable ==
  \/ last.action = "mask_sensitive_fields" /\ ~IsDict(last.parsed)
  \/ last.action = "serve_stale_cache" /\ ~CacheUsable
  \/ last.action \notin {"pass_through", "mask_sensitive_fields", "serve_stale_cache",
                         "reject_response", "downgrade_fidelity", "delay_response"}

Missing == [t |-> "missing"]
Children(v) ==
  IF IsDict(v) THEN DOMAIN v.kv ELSE IF IsList(v) THEN DOMAIN v.items ELSE {}
Child(v, i) ==
  IF i \notin Children(v) THEN Missing
  ELSE IF IsDict(v) THEN v.kv[i][2] ELSE v.items[i]
\* the key under which member i of a mapping sits
KeyOf(v, i) == IF IsDict(v) /\ i \in Children(v) THEN v.kv[i][1] ELSE "None"
RECURSIVE JsonPaths(_)
JsonPaths(v) ==
  {<<>>} \cup UNION {{<<i>> \o p : p \in JsonPaths(Child(v, i))} : i \in Children(v)}
RECURSIVE JsonAt(_, _)
JsonAt(v, p) == IF p = <<>> THEN v ELSE JsonAt(Child(v, Head(p)), Tail(p))
Parent(p) == SubSeq(p, 1, Len(p) - 1)
\* the member at path p is a key of a mapping, within the depth bound, with a
\* sensitive name
MaskedKey(v, p) ==
  /\ p # <<>>
  /\ IsDict(JsonAt(v, Parent(p)))
  /\ Len(p) - 1 <= 6
  /\ KeyIsSensitive(KeyOf(JsonAt(v, Parent(p)), p[Len(p)]))
\* the member at path p lies below a masked key
BelowMaskedKey(v, p) == \E n \in 1..(Len(p) - 1) : MaskedKey(v, SubSeq(p, 1, n))
IsScalar(v) == ~IsDict(v) /\ ~IsList(v)
MaskedAsStated(v, out) ==
  \A p \in JsonPaths(v) :
    ~BelowMaskedKey(v, p) =>
      /\ Children(JsonAt(out, p)) =
           (IF MaskedKey(v, p) THEN {} ELSE Children(JsonAt(v, p)))
      /\ \A i \in Children(JsonAt(out, p)) :
           KeyOf(JsonAt(out, p), i) = KeyOf(JsonAt(v, p), i)
      /\ MaskedKey(v, p) => JsonAt(out, p) = JStr("[MASKED]")
      /\ (~MaskedKey(v, p) /\ IsScalar(JsonAt(v, p))) => JsonAt(out, p) = JsonAt(v, p)

Masking == IsApply /\ last.action = "mask_sensitive_fields" /\ IsDict(last.parsed)

\* C11: for mask_sensitive_fields on a mapping with a response status, the
\* output body is the JSON text of a value with the members and keys of the
\* parsed body in which every key within the depth bound whose lower-cased name
\* contains a sensitive pattern has the value "[MASKED]" and every other
\* member keeps its value; {"password": "x"} yields "password": "[MASKED]".
C11_MaskedBody ==
  (Masking /\ Live.status # NoStatus) =>
    /\ Out.body.k = "dumps"
    /\ MaskedAsStated(last.parsed, Out.body.v)
    /\ Out.modified
\* a password at depth 6 is masked, the one at depth 7 below a plain key is kept
C11_Witness ==
  /\ Masking /\ Live.text = Wire("deep")
  /\ JsonAt(Out.body.v, <<1, 1, 1, 1, 1, 1, 1>>) = JStr("[MASKED]")
  /\ JsonAt(Out.body.v, <<1, 1, 1, 1, 1, 1, 2, 1>>) = JStr("y")

IsMask == last.kind = "mask"

\* C12: masking is idempotent: for every JSON value v, mask(mask(v)) = mask(v).
C12_MaskIdempotent == IsMask => last.twice = last.once
\* a value that the first masking changes, below a plain key
C12_Witness ==
  /\ IsMask
  /\ last.value = JObj(<< <<"id", JObj(<< <<"Token", JStr("x")>> >>)>> >>)
  /\ last.once = JObj(<< <<"id", JObj(<< <<"Token", JStr("[MASKED]")>> >>)>> >>)
  /\ last.twice = last.once

LastWindow == window[last.url.api]
Newest == LastWindow[Len(LastWindow)]
\* the entries of the window before the call that the call had to remove
TooOld(e) == e.ts < last.entry.ts - config.window_ms
InWindow(e) == \E i \in DOMAIN LastWindow : LastWindow[i] = e

\* C13: after every evaluate call the newest entry of the API's window is the
\* call's, every retained entry has ts >= latest_ts - window_ms, and every
\* older entry of the window has been removed in that call.
C13_WindowWithinSpan ==
  IsGet =>
    /\ LastWindow # <<>>
    /\ Newest = last.entry /\ Newest.ts = last.t
    /\ \A i \in DOMAIN LastWindow : LastWindow[i].ts >= Newest.ts - config.window_ms
    /\ \A i \in DOMAIN last.window_before :
         TooOld(last.window_before[i]) => ~InWindow(last.window_before[i])
\* a call that removes one entry and retains another
C13_Witness ==
  /\ IsGet
  /\ Len(last.window_before) = 2
  /\ TooOld(last.window_before[1])
  /\ ~TooOld(last.window_before[2])
  /\ LastWindow = <<last.window_before[2], last.entry>>

\* the sum of field f over entries 1..n of the retained window
RECURSIVE CountUpTo(_, _)
CountUpTo(n, f) == IF n = 0 THEN 0 ELSE CountUpTo(n - 1, f) + LastWindow[n][f]
CountOf(f) == CountUpTo(Len(LastWindow), f)
LastAggregates == last.decision.aggregates

\* C14: in every decision each aggregated pillar signal count equals the sum
\* of that pillar's per-entry counts over the entries retained in the window,
\* each counted once, and aggregates.total is the number of retained entries.
C14_AggregatesAreWindowSums ==
  IsGet =>
    /\ LastAggregates.total = Len(LastWindow)
    /\ LastAggregates.confidentialitySignals = CountOf("confidentialitySignals")
    /\ LastAggregates.availabilitySignals = CountOf("availabilitySignals")
    /\ LastAggregates.integritySignals = CountOf("integritySignals")
\* two retained entries with signals and one removed entry that had some
C14_Witness ==
  /\ IsGet
  /\ Len(last.window_before) = 2 /\ Len(LastWindow) = 2
  /\ last.window_before[1].confidentialitySignals > 1
  /\ LastWindow[1].availabilitySignals > 0
  /\ LastWindow[2].confidentialitySignals > 1
  /\ LastAggregates.confidentialitySignals =
       LastWindow[1].confidentialitySignals + LastWindow[2].confidentialitySignals
  /\ LastAggregates.availabilitySignals > 0

\* a second engine of the same configuration, fed the calls h one by one
RECURSIVE SecondEngine(_, _)
SecondEngine(h, st) ==
  IF h = <<>> THEN st
  ELSE SecondEngine(Tail(h),
         EngineEvaluate(config, profiles[Head(h).url.api], policy, Head(h).observation,
                        Head(h).out.text, _safe_json_parse(Head(h).out.text),
                        Head(h).out.headers, Head(h).out.status,
                        st.window, st.cache, Head(h).t))
FreshEngine == [window |-> <<>>, cache |-> NoCache]
CallsOfLastApi == SelectSeq(history, LAMBDA c : c.url.api = last.url.api)
\* the same evaluation on a fresh state at another time
FreshAt(t) ==
  EngineEvaluate(config, profiles[last.url.api], policy, last.observation, last.out.text,
                 last.parsed, last.out.headers, last.out.status, <<>>, NoCache, t)
SameOutcome(d, e) ==
  /\ d.scores = e.scores
  /\ d.action = e.action
  /\ d.tradeoff = e.tradeoff
  /\ d.confidence = e.confidence
OnFreshState == IsGet /\ last.window_before = <<>> /\ last.cache_before = NoCache

NoSignal ==
  /\ last.entry.confidentialitySignals = 0
  /\ last.entry.availabilitySignals = 0
  /\ last.entry.integritySignals = 0

\* C16: the first call for an API on fresh state whose observation carries no
\* confidentiality, availability or integrity signal is decided pass_through
\* with tradeoff none and confidence 1.0, for any thresholds in [0,1].
C16_CleanFirstCall ==
  (OnFreshState /\ NoSignal) =>
    /\ Decided("pass_through", "none")
    /\ last.decision.confidence = 100
\* a clean first call in enforce mode with every threshold at 1.0
C16_Witness ==
  /\ OnFreshState /\ NoSignal
  /\ last.out.status = 200
  /\ config.mode = "enforce"
  /\ LastProfile.confidentiality_threshold = 100
  /\ LastProfile.availability_threshold = 100
  /\ LastProfile.integrity_threshold = 100
  /\ last.decision.action = "pass_through"

IsResolve == last.kind = "resolve"
\* the layers of the policy that apply to the resolved call, most specific first
LayersFor(api, endpoint) ==
  LET e == IF /\ endpoint # ""
              /\ api \in DOMAIN policy.endpoints
              /\ endpoint \in DOMAIN policy.endpoints[api]
             THEN << policy.endpoints[api][endpoint] >> ELSE << >>
      s == IF api \in DOMAIN policy.services THEN << policy.services[api] >> ELSE << >>
  IN e \o s \o << policy.global >>
LastLayers == LayersFor(last.api, last.endpoint)
Defines(layer, k) == k \in DOMAIN layer /\ ~layer[k].null
\* the value of the most specific layer defining k with a non-null value, else
\* the value without policy
MostSpecific(k) ==
  IF \E i \in DOMAIN LastLayers : Defines(LastLayers[i], k)
    THEN LET i == CHOOSE i \in DOMAIN LastLayers :
                    /\ Defines(LastLayers[i], k)
                    /\ \A j \in 1..(i - 1) : ~Defines(LastLayers[j], k)
         IN LastLayers[i][k].v
    ELSE last.profile[k]
ForceMentioned ==
  \E i \in DOMAIN LastLayers : "force_integrity_priority" \in DOMAIN LastLayers[i]

\* C17: policy resolution overlays global, then service, then endpoint: for
\* each whitelisted key the resolved profile holds the value of the most
\* specific layer defining it with a non-null value, else the default; keys no
\* layer defines and keys outside the whitelist keep their value (prefer apart
\* when a layer sets force_integrity_priority).
C17_MostSpecificLayer ==
  IsResolve =>
    /\ DOMAIN last.resolved = DOMAIN last.profile
    /\ \A k \in DOMAIN last.resolved :
         IF k \notin AllowedKeys THEN last.resolved[k] = last.profile[k]
         ELSE IF k = "prefer" /\ ForceMentioned THEN TRUE
         ELSE last.resolved[k] = MostSpecific(k)

ForcedBy(layer) ==
  /\ "force_integrity_priority" \in DOMAIN layer
  /\ layer["force_integrity_priority"] = Box(TRUE)

\* C18: if force_integrity_priority is true in any policy layer that applies to
\* the call, the resolved profile has prefer = integrity, whatever the more
\* specific layers set for prefer or for force_integrity_priority.
C18_ForceAtAnyLayer ==
  (IsResolve /\ \E i \in DOMAIN LastLayers : ForcedBy(LastLayers[i])) =>
    last.resolved.prefer = "integrity"

(* claims about a client constructed with a policy file *)
Doc == policy.doc
\* the entries of the document, as written
RECURSIVE ValuesOf(_)
ValuesOf(entries) ==
  IF entries = <<>> THEN {} ELSE {Head(entries).values} \cup ValuesOf(Tail(entries))
DocEntries ==
  IF Doc.form = "policies" THEN ValuesOf(Doc.entries)
  ELSE IF Doc.form = "sections"
    THEN {Doc.global}
         \cup {Doc.services[sv] : sv \in DOMAIN Doc.services}
         \cup UNION {{Doc.endpoints[sv][ep] : ep \in DOMAIN Doc.endpoints[sv]} :
                       sv \in DOMAIN Doc.endpoints}
  ELSE {}
InUnit(v) == v # NaN /\ 0 <= v /\ v <= 100
\* a threshold that is a number outside [0,1], or a prefer that is neither value
Invalid(entry) ==
  /\ IsMapping(entry)
  /\ \/ \E key \in ThresholdKeys \cap DOMAIN entry :
          IsNumber(entry[key]) /\ ~InUnit(entry[key].v)
     \/ /\ "prefer" \in DOMAIN entry
        /\ entry["prefer"] # Box("availability")
        /\ entry["prefer"] # Box("integrity")
\* a document that cannot be parsed, is no mapping of policy layers, or has an
\* entry that is no mapping or fails validation
Malformed ==
  \/ Doc.form \in {"unparsable", "list", "policies_scalar"}
  \/ \E entry \in DocEntries :
       \/ ~IsMapping(entry)
       \/ Invalid(entry)
       \/ \E key \in ThresholdKeys \cap DOMAIN entry : ~IsNumber(entry[key])
GetRaised == last.kind = "raised" /\ "url" \in DOMAIN last
WithoutPolicy(api, endpoint) == _get_profile(config, profiles[api], NoPolicy, api, endpoint)

\* C19: with a malformed or unparsable policy file the client is constructed,
\* no call of get raises, and every decision is made with the profile that no
\* policy layer has changed.
C19_MalformedPolicyIsNoPolicy ==
  Malformed =>
    /\ ~GetRaised
    /\ IsGet => LastProfile = WithoutPolicy(last.url.api, last.url.path)

\* C20: a policy in which an entry has a threshold outside [0,1] or a prefer
\* other than availability/integrity fails validation and the client runs with
\* no policy; every threshold a loaded policy contributes to a resolved profile
\* lies in [0,1].
C20_OnlyValidThresholds ==
  /\ (\E entry \in DocEntries : Invalid(entry)) => ~policy.on
  /\ (IsResolve /\ policy.on) =>
       \A key \in ThresholdKeys :
         (\E i \in DOMAIN LastLayers : Defines(LastLayers[i], key)) =>
           InUnit(last.resolved[key])

\* the latest call was scored by a scorer that has a model for its API
Scoring ==
  /\ last.kind \in {"get", "raised"}
  /\ config.enable_ai
  /\ anomaly_scorer # NoScorer
  /\ anomaly_scorer.models[last.url.api] # "none"
\* and the scoring raised
ScoringFailed == IsGet /\ Scoring /\ last.out.ai = Fails
\* the same call made by a client with AI disabled
WithoutAi ==
  get([config EXCEPT !.enable_ai = FALSE], profiles, policy, NoScorer, cve_system,
      last.before, last.url, last.out, last.t)

\* C21: when anomaly scoring raises, the call still gives its observation, the
\* observation has none of aiAnomalyScore, aiAnomalyFlag, aiTopFeatures and
\* aiSchemaHash, and the observation and the decision are those the same call
\* gives with AI disabled.
C21_ScoringFailureContained ==
  (Scoring /\ last.out.ai = Fails) =>
    /\ IsGet
    /\ DOMAIN last.observation.integrity \cap AiFieldNames = {}
    /\ last.observation = WithoutAi.observation
    /\ last.decision = WithoutAi.decision

\* a scoring that raises after a call of the window was given a score
C21_Witness ==
  /\ ScoringFailed
  /\ last.before.anomaly_runtime[last.url.api] # NoRuntime
  /\ last.decision.aggregates.aiAnomalyScoreCount > 0

\* the same call made by a client without CVE data
WithoutAdvisory ==
  get(config, profiles, policy, anomaly_scorer, CVEDisabled, last.before, last.url,
      last.out, last.t)

\* C22: a failure inside the CVE advisory lookup never breaks the runtime: get
\* still returns the response and the decision, and the action, tradeoff,
\* scores and confidence are those of the same call without the advisory.
C22_AdvisoryNeverBreaks ==
  /\ ~(last.kind = "raised" /\ last.stage = "advisory")
  /\ IsGet =>
       /\ last.response.action = WithoutAdvisory.response.action
       /\ last.response.tradeoff = WithoutAdvisory.response.tradeoff
       /\ last.response.cad_scores = WithoutAdvisory.response.cad_scores
       /\ last.response.confidence = WithoutAdvisory.response.confidence

\* the state kept for the API y
PartOf(st, y) ==
  [window |-> st.window[y],
   cache |-> st.cache[y],
   anomaly_runtime |-> st.anomaly_runtime[y],
   schema_by_api |-> st.schema_by_api[y],
   last_response_by_signature |->
     [u \in {v \in AllUrls : v.api = y} |-> st.last_response_by_signature[u]]]
\* what a call of u that receives out gives at time t on the state st
Later(st, u, out, t) ==
  LET got == get(config, profiles, policy, anomaly_scorer, cve_system, st, u, out, t)
  IN [observation |-> got.observation, decision |-> got.decision]
\* the step is a call for the API x
CallFor(x) == last' # last /\ last'.kind = "get" /\ last'.url.api = x
\* a call for x leaves the state of y alone, and a later call for y gives the
\* same with or without it
Unaffected(x, y) ==
  /\ PartOf(State', y) = PartOf(State, y)
  /\ \A out \in PartitionOutcomes :
       Later(State', URL(y, "/a"), out, now' + 100) = Later(State, URL(y, "/a"), out, now' + 100)

\* C23 as stated: a call for API X leaves API Y's window, cache, anomaly state,
\* schema hash and signature history unchanged, and the observation and
\* decision of a later call for Y are the same with and without it.
C23_PartitionedByApi ==
  [][\A x, y \in Hosts : (CallFor(x) /\ y # x) => Unaffected(x, y)]_vars

\* C23: the same for every X and Y that are not the two price APIs
\* coingecko-simple-price and coingecko-markets, whose latest price maps are
\* compared with each other; Y's own state is left unchanged there as well.
C23_PartitionedButPrices ==
  [][\A x, y \in Hosts :
       (CallFor(x) /\ y # x) =>
         /\ PartOf(State', y) = PartOf(State, y)
         /\ {x, y} # PriceApis => Unaffected(x, y)]_vars

\* a call for Y, a call for X, and Y called again
C23_Witness ==
  /\ IsGet
  /\ Len(history) = 3
  /\ history[1].url.api = last.url.api
  /\ history[2].url.api # last.url.api
  /\ Len(window[last.url.api]) = 2

(* ------------------------------ C24 ------------------------------------ *)
AllDone == threads # <<>> /\ \A i \in DOMAIN threads : threads[i].pc = "done"
\* the entries of the calls made that are no older than window_ms before the
\* newest of them
DueInWindow ==
  {i \in DOMAIN threads :
     \A j \in DOMAIN threads : threads[i].entry.ts >= threads[j].entry.ts - config.window_ms}

\* C24: when the concurrent calls for one API have all completed, the window
\* holds the summary of every one of them that is within the window span:
\* none is lost to an interleaving of another call's append and prune.
C24_NoSummaryLost ==
  AllDone => Len(window["svc"]) = Cardinality(DueInWindow)

(* ------------------------------ C25 ------------------------------------ *)
\* the entry DecisionEngine.evaluate inserted in the call h
EntryOfCall(h) ==
  [ts |-> h.t] @@
  _summarize_signals(h.observation,
                     _get_profile(config, profiles[h.url.api], policy, h.url.api, h.url.path))
\* the entries inserted for api so far, in the order of the calls
Inserted(api) ==
  LET made == SelectSeq(history, LAMBDA h : h.url.api = api)
  IN [i \in DOMAIN made |-> EntryOfCall(made[i])]
\* a can be had from b by removing entries
RECURSIVE IsSubsequence(_, _)
IsSubsequence(a, b) ==
  IF a = <<>> THEN TRUE
  ELSE IF b = <<>> THEN FALSE
  ELSE IF Head(a) = Head(b) THEN IsSubsequence(Tail(a), Tail(b))
  ELSE IsSubsequence(a, Tail(b))

\* C25: after any sequence of evaluate calls the window of each API holds its
\* entries in the order they were inserted, which is non-decreasing order of
\* timestamp, and the entry inserted last has the greatest timestamp.
C25_WindowInInsertionOrder ==
  \A api \in Hosts :
    LET w == window[api]
        inserted == Inserted(api)
    IN /\ IsSubsequence(w, inserted)
       /\ \A i, j \in DOMAIN w : i < j => w[i].ts <= w[j].ts
       /\ w # <<>> =>
            /\ w[Len(w)] = inserted[Len(inserted)]
            /\ \A i \in DOMAIN w : w[i].ts <= w[Len(w)].ts
\* three calls, the first pruned, the other two retained in the order made
C25_Witness ==
  /\ IsGet
  /\ Len(history) = 3
  /\ Len(window["svc"]) = 2
  /\ window["svc"][1].ts < window["svc"][2].ts
  /\ window["svc"][1] # window["svc"][2]
  /\ window["svc"][1].confidentialitySignals # window["svc"][2].confidentialitySignals

(* ------------------------------ C26 ------------------------------------ *)
\* score >= threshold, the threshold in hundredths
Meets(score, threshold) == score.n * 100 >= threshold * score.d
\* clamp((threshold - score) / threshold) when score < threshold, else 0
BreachFraction(score, threshold) ==
  IF Meets(score, threshold) THEN Frac(0, 1)
  ELSE clamp(Frac(threshold * score.d - 100 * score.n, threshold * score.d))
\* the entries of the window that carried an AI anomaly score
Carrying == {i \in DOMAIN LastWindow : LastWindow[i].aiAnomalyScore > 0}
RECURSIVE SumOfScores(_)
SumOfScores(is) ==
  IF is = {} THEN 0
  ELSE LET i == CHOOSE i \in is : TRUE
       IN LastWindow[i].aiAnomalyScore + SumOfScores(is \ {i})
\* the average AI anomaly score of those entries, the scores in hundredths
AverageAiScore == Frac(SumOfScores(Carrying), 100 * Cardinality(Carrying))
\* the confidence as the rule states it, before rounding
StatedBase ==
  IF /\ last.decision.action = "pass_through"
     /\ Meets(LastScores.C_score, LastProfile.confidentiality_threshold)
     /\ Meets(LastScores.A_score, LastProfile.availability_threshold)
     /\ Meets(LastScores.D_score, LastProfile.integrity_threshold)
    THEN Frac(1, 1)
  ELSE IF config.mode = "passive" THEN Frac(1, 1)
  ELSE IF config.mode = "strict" /\ ~Meets(LastScores.D_score, LastProfile.integrity_threshold)
    THEN Frac(1, 1)
  ELSE FMax(BreachFraction(LastScores.C_score, LastProfile.confidentiality_threshold),
            FMax(BreachFraction(LastScores.A_score, LastProfile.availability_threshold),
                 BreachFraction(LastScores.D_score, LastProfile.integrity_threshold)))
StatedConfidence ==
  IF Carrying = {} THEN StatedBase ELSE FMax(StatedBase, clamp(AverageAiScore))

\* C26: the confidence of every decision is 1.0 for pass_through with all
\* three scores meeting their thresholds, else 1.0 in passive mode, else 1.0
\* in strict mode with D_score below integrity_threshold, otherwise the
\* greatest breach fraction of the three pillars; raised to the clamped
\* average AI anomaly score of the window entries that carried one; rounded
\* to two decimals and within [0, 1].
C26_ConfidenceFormula ==
  IsGet =>
    /\ last.decision.confidence = Round2(StatedConfidence)
    /\ last.decision.confidence \in 0..100
\* a decision in enforce mode whose greatest breach fraction lies strictly
\* between 0 and the AI average of its window, which the confidence takes
C26_Witness ==
  /\ IsGet
  /\ config.mode = "enforce"
  /\ last.decision.action # "pass_through"
  /\ Carrying # {}
  /\ FLt(Frac(0, 1), StatedBase)
  /\ FLt(StatedBase, clamp(AverageAiScore))
  /\ last.decision.confidence = 90

(* ------------------------------ C27 ------------------------------------ *)
\* the observation with other AI anomaly fields: none, or those of a result
\* of the score a
WithAi(observation, a) ==
  LET integrity == observation.integrity
      plain == [f \in DOMAIN integrity \ AiFieldNames |-> integrity[f]]
  IN [observation EXCEPT
        !.integrity =
          IF a = Fails THEN plain
          ELSE plain @@ [aiAnomalyScore |-> a,
                         aiAnomalyFlag |-> IF a >= config.anomaly_threshold
                                             THEN "strong" ELSE "none",
                         aiTopFeatures |-> "top3",
                         aiSchemaHash |-> NoSchema]]
\* an engine of the same configuration fed the calls h with the AI fields of
\* the i-th observation replaced as ai[i] says
RECURSIVE OtherRun(_, _, _)
OtherRun(h, ai, st) ==
  IF h = <<>> THEN st
  ELSE OtherRun(Tail(h), Tail(ai),
         EngineEvaluate(config, profiles[Head(h).url.api], policy,
                        WithAi(Head(h).observation, Head(ai)),
                        Head(h).out.text, _safe_json_parse(Head(h).out.text),
                        Head(h).out.headers, Head(h).out.status,
                        st.window, st.cache, Head(h).t))
\* no AI fields, or those of a result of score 0.90
AiValues == {Fails, 90}
AiRuns(n) == [1..n -> AiValues]
\* the AI scores the observations of the calls carried
CarriedAi(h) ==
  [i \in DOMAIN h |->
     IF "aiAnomalyScore" \in DOMAIN h[i].observation.integrity
       THEN h[i].observation.integrity.aiAnomalyScore ELSE Fails]

\* C27: an engine fed the same observations with other AI anomaly fields, or
\* with none, reaches after every call the same C, A and D scores, the same
\* action and tradeoff and the same cache as the engine of the run.
C27_AiAdvisoryOnly ==
  IsGet =>
    \A ai \in AiRuns(Len(CallsOfLastApi)) :
      LET other == OtherRun(CallsOfLastApi, ai, FreshEngine)
      IN /\ other.decision.scores = last.decision.scores
         /\ other.decision.action = last.decision.action
         /\ other.decision.tradeoff = last.decision.tradeoff
         /\ other.cache = cache[last.url.api]
\* a run whose calls carried AI scores and whose last decision is not
\* pass_through, with a confidence that the run without AI fields does not have
C27_Witness ==
  /\ IsGet
  /\ Len(CallsOfLastApi) = 3
  /\ \E i \in 1..3 : CarriedAi(CallsOfLastApi)[i] = 90
  /\ cache[last.url.api] # NoCache
  /\ last.decision.action # "pass_through"
  /\ OtherRun(CallsOfLastApi, [i \in 1..3 |-> Fails], FreshEngine).decision.confidence
       # last.decision.confidence

(* ------------------------------ C28 ------------------------------------ *)
\* the record stored for the method+url key before the call
PreviousRecord == last.before.last_response_by_signature[last.url]
LastIntegrity == last.observation.integrity
ReportsReplay == LastIntegrity.replayedPayload # NoRecord
ReportsDrift == LastIntegrity.temporalDrift # NoRecord

\* C28: a call reports a replay or a temporal drift only if a previous
\* response hash exists for its method+url key: with a previous hash, a
\* response of equal hash is reported replayed and not drifted, one of another
\* hash drifted and not replayed; with no previous hash neither is reported.
C28_ReplayOrDriftNeedsPreviousHash ==
  IsGet =>
    /\ PreviousRecord.hash = NoHash => ~ReportsReplay /\ ~ReportsDrift
    /\ (PreviousRecord.hash # NoHash /\ LastIntegrity.responseHash # NoHash) =>
         IF LastIntegrity.responseHash = PreviousRecord.hash
           THEN ReportsReplay /\ ~ReportsDrift
           ELSE ReportsDrift /\ ~ReportsReplay

(* ------------------------------ C29 ------------------------------------ *)
\* the response hashes of the calls made for the key of the last call, oldest
\* first, the last call's among them
HashesOfKey ==
  LET made == SelectSeq(history, LAMBDA h : h.url = last.url)
  IN [i \in DOMAIN made |-> made[i].observation.integrity.responseHash]
\* the length of the run of equal hashes that ends hs
RECURSIVE RunLength(_)
RunLength(hs) ==
  IF hs = <<>> THEN 0
  ELSE IF Len(hs) = 1 THEN 1
  ELSE IF hs[Len(hs) - 1] = hs[Len(hs)] THEN 1 + RunLength(SubSeq(hs, 1, Len(hs) - 1))
  ELSE 1
HashesBefore == SubSeq(HashesOfKey, 1, Len(HashesOfKey) - 1)

\* C29: the counter kept for a method+url key grows by one with every response
\* whose hash equals the one before and starts again when the hash changes, so
\* it is the length of the current run of identical responses, and the repeat
\* count of a replay record is the length of the run the replayed response
\* continues.
C29_RepeatCountIsRunLength ==
  IsGet =>
    /\ last_response_by_signature[last.url].count = RunLength(HashesOfKey)
    /\ ReportsReplay => LastIntegrity.replayedPayload.repeatCount = RunLength(HashesBefore)

(* ------------------------------ C30 ------------------------------------ *)
\* the last call is one in which AnomalyScorer.score returned a result
ScoredNow == IsGet /\ "aiAnomalyScore" \in DOMAIN LastIntegrity
\* the response hashes of the calls for the API of the last call in which
\* score returned a result, oldest first
ScoredHashes ==
  LET made == SelectSeq(history,
                        LAMBDA h : /\ h.url.api = last.url.api
                                   /\ "aiAnomalyScore" \in DOMAIN h.observation.integrity)
  IN [i \in DOMAIN made |-> made[i].observation.integrity.responseHash]
RuntimeBefore == last.before.anomaly_runtime[last.url.api]
RuntimeNow == anomaly_runtime[last.url.api]
\* the mean of the numbers in the body of the call: 1 for {"ok": true}, where
\* true counts as 1, and for [{"id": 1}]; 0.0 for a body without numbers and
\* for no body
MeanOfBody ==
  IF last.out.text \in {Wire("ok1"), Wire("arr")} THEN Frac(1, 1) ELSE Frac(0, 1)
SameFraction(a, b) == a.n * b.d = b.n * a.d

LastAction == last.decision.action
\* no policy manager and no profile of its own for the API of the last call
NoOverride == ~policy.on /\ profiles[last.url.api] = <<>>

\* C31: delay_response is chosen only with A_score at or above
\* availability_threshold and below availability_delay_threshold while C_score
\* and D_score meet their thresholds; a client without policy and without
\* per-API profile never decides delay_response, and its delayMs is always 0.
C31_DelayOnlyBetweenThresholds ==
  IsGet =>
    /\ LastAction = "delay_response" =>
         /\ Meets(LastScores.A_score, LastProfile.availability_threshold)
         /\ ~Meets(LastScores.A_score, LastProfile.availability_delay_threshold)
         /\ Meets(LastScores.C_score, LastProfile.confidentiality_threshold)
         /\ Meets(LastScores.D_score, LastProfile.integrity_threshold)
    /\ NoOverride =>
         /\ LastProfile.availability_delay_threshold = LastProfile.availability_threshold
         /\ LastAction # "delay_response"
         /\ last.delayMs = 0
\* a policy lowers availability_threshold alone, and a call is delayed
C31_Witness ==
  /\ IsGet
  /\ policy.on
  /\ LastProfile.availability_threshold < LastProfile.availability_delay_threshold
  /\ LastAction = "delay_response"
  /\ last.delayMs = 400

(* ------------------------------ C32 ------------------------------------ *)
\* what the policy layers set for the API and endpoint of the last call
LastEffective == get_effective_policy(policy, last.url.api, last.url.path)

StaleForAvailability ==
  /\ IsGet
  /\ NoOverride
  /\ LastAction = "serve_stale_cache"
  /\ ~Meets(LastScores.A_score, LastProfile.availability_threshold)
  /\ Meets(LastScores.D_score, LastProfile.integrity_threshold)
  /\ TextTruthy(last.out.text)
  /\ last.out.headers # {}
  /\ StatusTruthy(last.out.status)

\* C33: without policy or per-API profile, a call decided serve_stale_cache
\* for a low A_score with D_score at or above its threshold, whose live
\* response has body, headers and status, has written the cache entry itself
\* before the entry is read: the interceptor serves the body and status of
\* this call, of age 0, whatever entry there was before.
C33_StaleIsLive ==
  StaleForAvailability =>
    /\ cache[last.url.api].ts = last.t
    /\ cache[last.url.api].body = last.out.text
    /\ last.decision.applied
    /\ last.effective.modified
    /\ last.effective.modification = "served_stale_cache"
    /\ last.effective.body = last.out.text
    /\ last.effective.status = last.out.status
    /\ last.response.raw = last.out.text
\* such a call with an entry of an earlier, different response in the cache
C33_Witness ==
  /\ StaleForAvailability
  /\ last.cache_before # NoCache
  /\ last.cache_before.body # last.out.text
  /\ last.cache_before.ts < last.t
  /\ last.effective.body = last.out.text

(* ------------------------------ C34 ------------------------------------ *)
\* all calls so far went to the method+url of the last call, returned a body
\* and are still in the window
AllInWindow ==
  /\ IsGet
  /\ Len(history) >= 2
  /\ Len(LastWindow) = Len(history)
  /\ \A i \in DOMAIN history :
       history[i].url = last.url /\ TextTruthy(history[i].out.text)
Drifted(h) == h.observation.integrity.temporalDrift # NoRecord
Replayed(h) == h.observation.integrity.replayedPayload # NoRecord

\* C34: when n >= 2 calls to one method+url all returned a body and all lie
\* in the window, every call after the first reports exactly one of temporal
\* drift and replay, its window entry has an integrity signal, and with
\* integrity_weight 1 the D_score of the n-th call is at most 1/n.
C34_RepeatedCallsLowerDScore ==
  AllInWindow =>
    /\ \A i \in 2..Len(history) :
         /\ Drifted(history[i]) # Replayed(history[i])
         /\ LastWindow[i].integritySignals >= 1
    /\ LastProfile.integrity_weight = 100 =>
         LastScores.D_score.n * Len(history) <= LastScores.D_score.d
\* three calls in the window, the second a replay and the third a drift, and
\* a D_score of 1/3
C34_Witness ==
  /\ AllInWindow
  /\ Len(history) = 3
  /\ Replayed(history[2])
  /\ Drifted(history[3])
  /\ SameFraction(LastScores.D_score, Frac(1, 3))

(* ------------------------------ C35 ------------------------------------ *)
\* the transport raised, the call has no status, headers or body, and took no
\* longer than the latency budget
FailedInTime ==
  /\ IsGet
  /\ last.out.error # NoError
  /\ last.out.status = NoStatus /\ last.out.headers = H0 /\ last.out.text = NoText
  /\ last.out.timing_ms <= LastProfile.latency_budget_ms
\* the call leaves no availability signal; on a fresh window it is passed
\* through with confidence 1.0; the interceptor returns the live parts
Invisible ==
  /\ last.entry.availabilitySignals = 0
  /\ last.window_before = <<>> => LastAction = "pass_through" /\ last.decision.confidence = 100
  /\ ~last.effective.modified
  /\ last.effective.status = NoStatus
  /\ last.effective.headers = H0
  /\ last.effective.body = NoText

AllMeet ==
  /\ Meets(LastScores.C_score, LastProfile.confidentiality_threshold)
  /\ Meets(LastScores.A_score, LastProfile.availability_threshold)
  /\ Meets(LastScores.D_score, LastProfile.integrity_threshold)

\* C36: every pass_through decision has confidence 1.0, whatever the mode and
\* the calls before it, and outside passive mode pass_through is decided only
\* when C_score, A_score and D_score all meet their thresholds.
C36_PassThroughIsCertain ==
  (IsGet /\ LastAction = "pass_through") =>
    /\ last.decision.confidence = 100
    /\ config.mode # "passive" => AllMeet
\* outside passive mode, a later call is passed through although the window
\* holds signals and a score is below 1
C36_Witness ==
  /\ IsGet /\ LastAction = "pass_through"
  /\ config.mode # "passive"
  /\ last.window_before # <<>>
  /\ \/ FLt(LastScores.C_score, Frac(1, 1))
     \/ FLt(LastScores.A_score, Frac(1, 1))
     \/ FLt(LastScores.D_score, Frac(1, 1))
  /\ last.decision.confidence = 100

(* ------------------------------ C37 ------------------------------------ *)
Actions ==
  {"pass_through", "mask_sensitive_fields", "serve_stale_cache",
   "reject_response", "downgrade_fidelity", "delay_response"}
\* the tradeoff that goes with an action
TradeoffOf(action) ==
  CASE action = "pass_through" -> "none"
    [] action = "mask_sensitive_fields" -> "confidentiality_over_completeness"
    [] action = "serve_stale_cache" -> "availability_over_integrity"
    [] action \in {"reject_response", "downgrade_fidelity", "delay_response"} ->
         "integrity_over_availability"

\* C37: the action of every decision is one of the six actions and the
\* decision's tradeoff is the one that goes with that action.
C37_TradeoffFollowsAction ==
  IsGet => /\ LastAction \in Actions
           /\ last.decision.tradeoff = TradeoffOf(LastAction)
\* prefer is integrity and both A_score and D_score are low: the both-low rule
\* gives downgrade_fidelity with integrity_over_availability
C37_Witness ==
  /\ IsGet
  /\ LastAction = "downgrade_fidelity"
  /\ LastProfile.prefer = "integrity"
  /\ ALow /\ DLow
  /\ last.decision.tradeoff = "integrity_over_availability"

(* ------------------------------ C38 ------------------------------------ *)
\* the window of the API of the last call
WindowOfLast == window[last.url.api]

\* C38: after every evaluate call (window_ms >= 0) the window of the API is
\* non-empty and ends with the entry that call appended, and the aggregates
\* of the call count at least one entry, so no rate is divided by zero.
C38_OwnEntryLast ==
  last.kind \in {"get", "evaluate"} =>
    /\ WindowOfLast # <<>>
    /\ WindowOfLast[Len(WindowOfLast)] = last.entry
    /\ last.decision.aggregates.total >= 1

(* ------------------------------ C39 ------------------------------------ *)
IsSynthesize == last.kind = "synthesize"

\* C39: for every action, live response and cache entry, taken at one
\* instant, the engine's applied flag is true exactly when the result of the
\* interceptor has modified = true.
C39_AppliedIffModified ==
  IsSynthesize => (last.applied.applied <=> last.effective.modified)

(* ------------------------------ C40 ------------------------------------ *)
\* C40: downgrade_fidelity is decided only in enforce mode, with a resolved
\* prefer other than availability, A_score and D_score both below their
\* thresholds and C_score at or above its own; never in strict or passive
\* mode, and never when neither a policy nor a per-API profile is there to
\* override prefer.
C40_DowngradeOnlyByPreference ==
  (IsGet /\ LastAction = "downgrade_fidelity") =>
    /\ config.mode = "enforce"
    /\ LastProfile.prefer # "availability"
    /\ ALow /\ DLow /\ ~CLow
    /\ ~NoOverride
\* an enforce-mode client whose policy sets prefer for the service decides
\* downgrade_fidelity
C40_Witness ==
  /\ IsGet /\ LastAction = "downgrade_fidelity"
  /\ config.mode = "enforce"
  /\ policy = PolicyService
  /\ LastProfile.prefer = "integrity"
  /\ ALow /\ DLow

====
